---- MODULE Spec2Model ----
(***************************************************************************)
(* A model of the workflow execution code of virtual_table_v2:             *)
(*   - WorkflowEngine   (src/src/agents/workflows/mcp_workflows.py)        *)
(*   - MetaAgentSystem  (src/src/agents/core/meta_agent_system.py)         *)
(* Every asyncio coroutine is cut at its await points: one action is the   *)
(* code that runs between two suspensions of the coroutine.                *)
(***************************************************************************)
EXTENDS Integers, Sequences, FiniteSets, TLC

(***************************************************************************)
(* Bounds of the model.                                                    *)
(***************************************************************************)
MaxRetries == 1
MaxDeps == 2
MaxRuns == 2

(***************************************************************************)
(* Generic helpers.                                                        *)
(***************************************************************************)
Range(s) == {s[i] : i \in DOMAIN s}

RECURSIVE SelectIdx(_, _, _)
\* the indexes i >= k of 1..n that satisfy keep[i], in increasing order
SelectIdx(keep, k, n) ==
    IF k > n THEN << >>
    ELSE IF keep[k] THEN <<k>> \o SelectIdx(keep, k + 1, n)
    ELSE SelectIdx(keep, k + 1, n)

(***************************************************************************)
(* WorkflowEngine: data model.                                             *)
(***************************************************************************)
\* the step ids a template may use, in list order
StepNames == <<"a", "b", "c">>
MaxSteps == Len(StepNames)
StepId(i) == StepNames[i]
\* a dependency that names no step of the workflow
GhostId == "ghost"
RunIds == 1 .. MaxRuns

\* Python's None as a step result
NoneResult == [step |-> "None", attempt |-> 0]

\* WorkflowStep(...) with the dataclass defaults for status, result and error
WorkflowStep(id, parameters, dependencies, conditions, retry_count) ==
    [id |-> id, parameters |-> parameters, dependencies |-> dependencies,
     conditions |-> conditions, retry_count |-> retry_count,
     status |-> "waiting", result |-> NoneResult, error |-> "None"]

\* the parameters of the step with this id: one placeholder value
StepParameters(id) == [target |-> "{v}", owner |-> id]

\* _copy_step: status, result and error are not passed on, so they take
\* the dataclass defaults
_copy_step(step) ==
    WorkflowStep(step.id, step.parameters, step.dependencies, step.conditions,
                 step.retry_count)

\* the identity of a step object: the template's own step i (owner 0), or
\* the step i that belongs to run r
TemplateRef(i) == [owner |-> 0, index |-> i]

\* an instance whose list holds the template's step objects themselves
CopyRef_sameObject(r, i) == TemplateRef(i)

\* the object _copy_step returns for step i of run r: a new WorkflowStep
CopyRef(r, i) == [owner |-> r, index |-> i]

VariableNames == {"v"}
ConditionChoices ==
    { << >>,
      <<[type |-> "variable_exists", variable |-> "v"]>> }

\* the dependency lists of step i of n: up to MaxDeps ids among the other
\* steps and an id that names no step
DepChoices(n, i) ==
    {D \in SUBSET (({StepId(j) : j \in 1 .. n} \ {StepId(i)}) \cup {GhostId}) :
        Cardinality(D) <= MaxDeps}

\* the workflow templates the model explores: up to MaxSteps steps with
\* unique ids, any dependency lists (cyclic ones and ones naming a missing
\* step included), one retry budget up to MaxRetries for all steps (as in
\* the built-in templates, which leave retry_count to its default), and
\* possibly a condition on the first step
Templates ==
    UNION { { [i \in 1 .. n |->
                 WorkflowStep(StepId(i), StepParameters(StepId(i)), deps[i],
                              IF i = 1 THEN cond ELSE << >>, retry)] :
              deps \in {d \in [1 .. n -> SUBSET (Range(StepNames) \cup {GhostId})] :
                          \A i \in 1 .. n : d[i] \in DepChoices(n, i)},
              cond \in ConditionChoices,
              retry \in 0 .. MaxRetries } :
            n \in 0 .. MaxSteps }

VARIABLES
    workflow_templates,  \* the steps of the one template the runs are made of
    active_workflows,    \* run ids
    completed_workflows, \* run ids
    wf_status,           \* run -> WorkflowStatus value ("none": no instance)
    wf_steps,            \* run -> sequence of WorkflowStep
    step_refs,           \* run -> the identities of the objects in wf_steps
    ctx_variables,       \* run -> context.variables (names that are set)
    step_results,        \* run -> context.step_results (id -> result)
    error_log,           \* run -> context.error_log
    end_time,            \* run -> context.end_time is set
    pc,                  \* run -> where execute_workflow is suspended
    completed_steps,     \* run -> local set of _execute_workflow_steps
    ready_steps,         \* run -> the batch being gathered (step indexes)
    task,                \* run -> step index -> state of its _execute_step task
    invocations,         \* run -> step index -> calls of _simulate_mcp_call
    failures,            \* run -> step index -> calls that raised
    cancel_result,       \* what cancel_workflow returned, when it was the last call
    query_result         \* what a status or listing query returned, likewise

\* the state of the engine and of its runs
runvars == <<workflow_templates, active_workflows, completed_workflows,
             wf_status, wf_steps, step_refs, ctx_variables, step_results,
             error_log, end_time, pc, completed_steps, ready_steps, task,
             invocations, failures>>

evars == <<runvars, cancel_result>>

\* no query was the last call
NoCall == [call |-> "none"]


NoTasks == [i \in 1 .. MaxSteps |-> "none"]
NoInvocations == [i \in 1 .. MaxSteps |-> 0]

EngineInit ==
    /\ workflow_templates \in Templates
    /\ active_workflows = {}
    /\ completed_workflows = {}
    /\ wf_status = [r \in RunIds |-> "none"]
    /\ wf_steps = [r \in RunIds |-> << >>]
    /\ step_refs = [r \in RunIds |-> << >>]
    /\ ctx_variables = [r \in RunIds |-> {}]
    /\ step_results = [r \in RunIds |-> << >>]
    /\ error_log = [r \in RunIds |-> << >>]
    /\ end_time = [r \in RunIds |-> FALSE]
    /\ pc = [r \in RunIds |-> "idle"]
    /\ completed_steps = [r \in RunIds |-> {}]
    /\ ready_steps = [r \in RunIds |-> << >>]
    /\ task = [r \in RunIds |-> NoTasks]
    /\ invocations = [r \in RunIds |-> NoInvocations]
    /\ failures = [r \in RunIds |-> NoInvocations]
    /\ cancel_result = "none"
    /\ query_result = NoCall

(***************************************************************************)
(* WorkflowEngine: pure helpers.                                           *)
(***************************************************************************)
RECURSIVE _check_step_conditions(_, _, _)
\* the first condition of a known type decides; conditions of another type
\* are passed over; no deciding condition means True
_check_step_conditions(conditions, variables, k) ==
    IF k > Len(conditions) THEN TRUE
    ELSE IF conditions[k].type = "approval_required" THEN TRUE
    ELSE IF conditions[k].type = "file_exists" THEN TRUE
    ELSE IF conditions[k].type = "variable_exists"
         THEN conditions[k].variable \in variables
    ELSE _check_step_conditions(conditions, variables, k + 1)

\* IsReady with any(...) written for all(...)
IsReady_anyDependency(step, completed) ==
    /\ step.id \notin completed
    /\ step.status = "waiting"
    /\ \/ step.dependencies = {}
       \/ \E dep \in step.dependencies : dep \in completed

\* IsReady that looks at the dependencies only
IsReady_dependenciesOnly(step, completed) ==
    \A dep \in step.dependencies : dep \in completed

\* the test of the ready loop of _execute_workflow_steps
IsReady(step, completed) ==
    /\ step.id \notin completed
    /\ step.status = "waiting"
    /\ \A dep \in step.dependencies : dep \in completed

\* ReadySteps that stops at the first ready step
ReadySteps_firstOnly(steps, completed) ==
    LET all == SelectIdx([i \in 1 .. Len(steps) |-> IsReady(steps[i], completed)],
                         1, Len(steps))
    IN  IF all = << >> THEN all ELSE <<all[1]>>

\* ready_steps, as indexes into workflow.steps, in list order
ReadySteps(steps, completed) ==
    SelectIdx([i \in 1 .. Len(steps) |-> IsReady(steps[i], completed)],
              1, Len(steps))

\* RemainingIds without the filter on completed_steps
RemainingIds_allSteps(steps, completed) ==
    [k \in 1 .. Len(steps) |-> steps[k].id]

\* remaining_steps of the deadlock branch, as step ids in list order
RemainingIds(steps, completed) ==
    LET idx == SelectIdx([i \in 1 .. Len(steps) |->
                            steps[i].id \notin completed], 1, Len(steps))
    IN  [k \in 1 .. Len(idx) |-> steps[idx[k]].id]

\* the template's steps after the runs' steps became new_steps: a write to
\* a step object that is the template's own shows in the template
TemplateAfter(template, refs, old_steps, new_steps) ==
    [i \in 1 .. Len(template) |->
        IF \E r \in RunIds : /\ i <= Len(refs[r])
                             /\ refs[r][i] = TemplateRef(i)
                             /\ new_steps[r][i] # old_steps[r][i]
        THEN LET r == CHOOSE r \in RunIds : /\ i <= Len(refs[r])
                                            /\ refs[r][i] = TemplateRef(i)
                                            /\ new_steps[r][i] # old_steps[r][i]
             IN  new_steps[r][i]
        ELSE template[i]]

\* context.step_results[id] = value
DictSet(d, key, value) ==
    [x \in DOMAIN d \cup {key} |-> IF x = key THEN value ELSE d[x]]

StepLogEntry(id) == [kind |-> "step", ids |-> <<id>>]
RaisedLogEntry == [kind |-> "error", ids |-> << >>]
DeadlockLogEntry(ids) == [kind |-> "deadlock", ids |-> ids]

\* what one pass of the result loop does to a step whose task raised
FailedStep(step) ==
    IF step.retry_count > 0
    THEN [step EXCEPT !.status = "waiting", !.error = "failed",
                      !.retry_count = step.retry_count - 1]
    ELSE [step EXCEPT !.status = "failed", !.error = "failed"]

\* does the result loop re-raise the exception of this step
Reraises(step) == ~(step.retry_count > 0)

\* what one pass of the result loop does to a step whose task returned
SucceededStep(step, result) ==
    [step EXCEPT !.status = "completed", !.result = result]

RECURSIVE ProcessResults(_, _, _, _)
\* the loop over enumerate(ready_steps) after the gather; acc is the state
\* of the run, acc.raised says that the loop was left by the raise
ProcessResults(acc, batch, k, outcome) ==
    IF k > Len(batch) \/ acc.raised THEN acc
    ELSE LET i == batch[k]
             step == acc.steps[i]
         IN  IF outcome[i].exc
             THEN ProcessResults(
                    [acc EXCEPT !.steps[i] = FailedStep(step),
                                !.log = Append(acc.log, StepLogEntry(step.id)),
                                !.raised = Reraises(step)],
                    batch, k + 1, outcome)
             ELSE ProcessResults(
                    [acc EXCEPT !.steps[i] = SucceededStep(step, outcome[i].value),
                                !.results = DictSet(acc.results, step.id,
                                                    outcome[i].value),
                                !.completed = acc.completed \cup {step.id}],
                    batch, k + 1, outcome)

\* results[i] of the gather, from the state of the task of step i
TaskOutcome(r, i) ==
    [exc |-> task[r][i] = "raised",
     value |-> IF task[r][i] = "returned"
               THEN [step |-> wf_steps[r][i].id, attempt |-> invocations[r][i]]
               ELSE NoneResult]

\* a gather that does not come back when a task has raised
TaskDone_returnedOnly(t) == t \in {"returned", "skipped"}

\* is the task of a gather with return_exceptions=True done
TaskDone(t) == t \in {"returned", "skipped", "raised"}

(***************************************************************************)
(* WorkflowEngine: the coroutines.                                         *)
(***************************************************************************)
\* an except branch that sets the status and logs nothing
HandleException_unlogged(log, entry) == [status |-> "failed", log |-> log]

\* the except branch of execute_workflow: the status and the error_log
\* after an exception whose text is entry
HandleException(log, entry) ==
    [status |-> "failed", log |-> Append(log, entry)]

\* a finally branch that does not keep the instance
Retained_dropped(completed, r) == completed

\* completed_workflows after the finally branch of execute_workflow
Retained(completed, r) == completed \cup {r}

\* the except/finally of execute_workflow and its return; active is
\* active_workflows at that moment
Finish(r, status, steps, completed, results, log, active) ==
    /\ wf_status' = [wf_status EXCEPT ![r] = status]
    /\ wf_steps' = [wf_steps EXCEPT ![r] = steps]
    /\ completed_steps' = [completed_steps EXCEPT ![r] = completed]
    /\ step_results' = [step_results EXCEPT ![r] = results]
    /\ error_log' = [error_log EXCEPT ![r] = log]
    /\ end_time' = [end_time EXCEPT ![r] = TRUE]
    /\ completed_workflows' = Retained(completed_workflows, r)
    /\ active_workflows' = active \ {r}
    /\ ready_steps' = [ready_steps EXCEPT ![r] = << >>]
    /\ task' = [task EXCEPT ![r] = NoTasks]
    /\ pc' = [pc EXCEPT ![r] = "done"]

\* the tasks the gather is given: one per ready step
GatherTasks(ready) ==
    [i \in 1 .. MaxSteps |-> IF i \in Range(ready) THEN "scheduled" ELSE "none"]

\* one turn of the while loop of _execute_workflow_steps, up to the await of
\* the gather or to the end of execute_workflow; status is the run status
\* and active is active_workflows at that moment
RunLoop(r, status, steps, completed, results, log, active) ==
    LET ready == ReadySteps(steps, completed)
        remaining == RemainingIds(steps, completed)
    IN  IF Cardinality(completed) < Len(steps) /\ ready # << >>
        THEN /\ wf_status' = [wf_status EXCEPT ![r] = status]
             /\ wf_steps' = [wf_steps EXCEPT ![r] = steps]
             /\ completed_steps' = [completed_steps EXCEPT ![r] = completed]
             /\ step_results' = [step_results EXCEPT ![r] = results]
             /\ error_log' = [error_log EXCEPT ![r] = log]
             /\ ready_steps' = [ready_steps EXCEPT ![r] = ready]
             /\ task' = [task EXCEPT ![r] = GatherTasks(ready)]
             /\ pc' = [pc EXCEPT ![r] = "gather"]
             /\ active_workflows' = active
             /\ UNCHANGED <<end_time, completed_workflows>>
        ELSE IF Cardinality(completed) < Len(steps) /\ remaining # << >>
        THEN LET e == HandleException(log, DeadlockLogEntry(remaining))
             IN  Finish(r, e.status, steps, completed, results, e.log, active)
        ELSE Finish(r, "completed", steps, completed, results, log, active)

\* execute_workflow(workflow_id, parameters) up to its first suspension
execute_workflow(r, parameters) ==
    /\ pc[r] = "idle"
    /\ ctx_variables' = [ctx_variables EXCEPT ![r] = parameters]
    /\ invocations' = [invocations EXCEPT ![r] = NoInvocations]
    /\ failures' = [failures EXCEPT ![r] = NoInvocations]
    /\ RunLoop(r, "running",
               [i \in 1 .. Len(workflow_templates) |->
                   _copy_step(workflow_templates[i])],
               {}, << >>, << >>, active_workflows \cup {r})
    /\ step_refs' = [step_refs EXCEPT ![r] =
           [i \in 1 .. Len(workflow_templates) |-> CopyRef(r, i)]]
    /\ cancel_result' = "none"
    /\ UNCHANGED workflow_templates

\* _execute_step of one step up to its await of _simulate_mcp_call, or to
\* the return None of a step whose conditions are not met
StartedStep(step, variables) ==
    IF _check_step_conditions(step.conditions, variables, 1)
    THEN [step EXCEPT !.status = "running"]
    ELSE [step EXCEPT !.status = "skipped"]

\* the tasks of the gather start: the event loop runs them one after the
\* other, in the order of ready_steps, each up to its first suspension
_execute_step(r) ==
    /\ pc[r] = "gather"
    /\ \E i \in Range(ready_steps[r]) : task[r][i] = "scheduled"
    /\ wf_steps' = [wf_steps EXCEPT ![r] =
           [i \in 1 .. Len(wf_steps[r]) |->
               IF task[r][i] = "scheduled"
               THEN StartedStep(wf_steps[r][i], ctx_variables[r])
               ELSE wf_steps[r][i]]]
    /\ task' = [task EXCEPT ![r] =
           [i \in 1 .. MaxSteps |->
               IF task[r][i] # "scheduled" THEN task[r][i]
               ELSE IF wf_steps'[r][i].status = "running" THEN "calling"
               ELSE "skipped"]]
    /\ invocations' = [invocations EXCEPT ![r] =
           [i \in 1 .. MaxSteps |->
               IF task'[r][i] = "calling" /\ task[r][i] = "scheduled"
               THEN invocations[r][i] + 1 ELSE invocations[r][i]]]
    /\ cancel_result' = "none"
    /\ workflow_templates' =
           TemplateAfter(workflow_templates, step_refs, wf_steps, wf_steps')
    /\ UNCHANGED <<active_workflows, completed_workflows, step_refs,
                   wf_status, ctx_variables, step_results, error_log,
                   end_time, pc, completed_steps, ready_steps, failures>>

\* _simulate_mcp_call comes back to _execute_step: with a result, or with
\* an exception that _execute_step re-raises
_simulate_mcp_call(r, i, ok) ==
    /\ pc[r] = "gather"
    /\ task[r][i] = "calling"
    /\ task' = [task EXCEPT ![r][i] = IF ok THEN "returned" ELSE "raised"]
    /\ failures' = [failures EXCEPT ![r][i] = IF ok THEN @ ELSE @ + 1]
    /\ UNCHANGED <<workflow_templates, active_workflows, completed_workflows,
                   wf_status, wf_steps, step_refs, ctx_variables,
                   step_results, error_log, end_time, pc, completed_steps,
                   ready_steps, invocations>>
    /\ cancel_result' = "none"

\* the gather returns: the loop over the results, then the next turn of the
\* while loop, up to the next gather or to the end of execute_workflow
_execute_workflow_steps(r) ==
    /\ pc[r] = "gather"
    /\ \A i \in Range(ready_steps[r]) : TaskDone(task[r][i])
    /\ LET out == ProcessResults(
                    [steps |-> wf_steps[r], completed |-> completed_steps[r],
                     results |-> step_results[r], log |-> error_log[r],
                     raised |-> FALSE],
                    ready_steps[r], 1, [i \in 1 .. MaxSteps |-> TaskOutcome(r, i)])
       IN  IF out.raised
           THEN LET e == HandleException(out.log, RaisedLogEntry)
                IN  Finish(r, e.status, out.steps, out.completed,
                           out.results, e.log, active_workflows)
           ELSE RunLoop(r, wf_status[r], out.steps, out.completed,
                        out.results, out.log, active_workflows)
    /\ cancel_result' = "none"
    /\ workflow_templates' =
           TemplateAfter(workflow_templates, step_refs, wf_steps, wf_steps')
    /\ UNCHANGED <<step_refs, ctx_variables, invocations, failures>>

\* CancelledSteps failing every step that has not completed
CancelledSteps_allUnfinished(steps) ==
    [i \in 1 .. Len(steps) |->
        IF steps[i].status # "completed"
        THEN [steps[i] EXCEPT !.status = "failed", !.error = "Workflow cancelled"]
        ELSE steps[i]]

\* the steps of a run after the loop of cancel_workflow
CancelledSteps(steps) ==
    [i \in 1 .. Len(steps) |->
        IF steps[i].status = "running"
        THEN [steps[i] EXCEPT !.status = "failed", !.error = "Workflow cancelled"]
        ELSE steps[i]]

\* a test that also finds the runs that have finished
Cancellable_anyRetained(id, active, completed) == id \in active \cup completed

\* the test of cancel_workflow: is there a run to cancel under this id
Cancellable(id, active, completed) == id \in active

\* cancel_workflow(workflow_id): no await inside, so it runs in one piece
cancel_workflow(r) ==
    /\ IF Cancellable(r, active_workflows, completed_workflows)
       THEN /\ wf_status' = [wf_status EXCEPT ![r] = "cancelled"]
            /\ end_time' = [end_time EXCEPT ![r] = TRUE]
            /\ wf_steps' = [wf_steps EXCEPT ![r] = CancelledSteps(wf_steps[r])]
            /\ cancel_result' = "true"
       ELSE /\ cancel_result' = "false"
            /\ UNCHANGED <<wf_status, end_time, wf_steps>>
    /\ workflow_templates' =
           TemplateAfter(workflow_templates, step_refs, wf_steps, wf_steps')
    /\ UNCHANGED <<active_workflows, completed_workflows, step_refs,
                   ctx_variables, step_results, error_log, pc,
                   completed_steps, ready_steps, task, invocations, failures>>

\* the number of steps of a run that have this status
CountSteps(steps, status) ==
    Cardinality({i \in 1 .. Len(steps) : steps[i].status = status})

\* a lookup by subscript, which raises for an id that is in neither
\* dictionary
WorkflowStatusOf_subscript(id) == [found |-> TRUE, raised |-> "KeyError"]

\* what get_workflow_status returns: None for an id that is in neither
\* dictionary, else the record of the run
WorkflowStatusOf(id) ==
    IF id \in active_workflows \cup completed_workflows
    THEN [found |-> TRUE,
          id |-> id,
          status |-> wf_status[id],
          end_time |-> end_time[id],
          total_steps |-> Len(wf_steps[id]),
          completed_steps |-> CountSteps(wf_steps[id], "completed"),
          failed_steps |-> CountSteps(wf_steps[id], "failed"),
          step_details |-> [i \in 1 .. Len(wf_steps[id]) |->
                               [id |-> wf_steps[id][i].id,
                                status |-> wf_steps[id][i].status,
                                error |-> wf_steps[id][i].error]],
          error_log |-> error_log[id]]
    ELSE [found |-> FALSE]

\* get_workflow_status(workflow_id)
get_workflow_status(id) ==
    /\ query_result' = [call |-> "get_workflow_status", id |-> id,
                        value |-> WorkflowStatusOf(id)]
    /\ cancel_result' = "none"
    /\ UNCHANGED runvars

\* the runs list_workflows makes an entry for
Listed(status_filter) ==
    {id \in active_workflows \cup completed_workflows :
        status_filter = "None" \/ wf_status[id] = status_filter}

\* the value of "progress" in the entry of a run: the division of the
\* number of completed steps by the number of steps
Progress(steps) ==
    IF Len(steps) = 0 THEN [raised |-> "ZeroDivisionError"]
    ELSE [raised |-> "None",
          value |-> <<CountSteps(steps, "completed"), Len(steps)>>]

\* what list_workflows returns, or the exception it raises
WorkflowList(status_filter) ==
    IF \E id \in Listed(status_filter) : Progress(wf_steps[id]).raised # "None"
    THEN [raised |-> "ZeroDivisionError"]
    ELSE [raised |-> "None",
          value |-> [id \in Listed(status_filter) |->
                        [status |-> wf_status[id],
                         progress |-> Progress(wf_steps[id]).value]]]

\* list_workflows(status_filter)
list_workflows(status_filter) ==
    /\ query_result' = [call |-> "list_workflows", filter |-> status_filter,
                        value |-> WorkflowList(status_filter)]
    /\ cancel_result' = "none"
    /\ UNCHANGED runvars

(***************************************************************************)
(* MetaAgentSystem: data model.                                            *)
(* Agent ids are one character long, a string is a sequence of characters, *)
(* and a data_flow value is the string the code splits at its commas.      *)
(***************************************************************************)
MaxAgents == 4
MaxTargets == 2

AgentNames == {"A", "B", "C"}

RECURSIVE Join(_, _)
\* sep.join(ids), as a sequence of characters
Join(ids, sep) ==
    IF ids = << >> THEN << >>
    ELSE IF Len(ids) = 1 THEN <<ids[1]>>
    ELSE <<ids[1], sep>> \o Join(Tail(ids), sep)

RECURSIVE Split(_, _)
\* str.split(sep): the pieces between the separators, empty pieces kept
Split(str, sep) ==
    IF \A k \in 1 .. Len(str) : str[k] # sep THEN <<str>>
    ELSE LET k == CHOOSE k \in 1 .. Len(str) :
                      str[k] = sep /\ \A j \in 1 .. k - 1 : str[j] # sep
         IN  <<SubSeq(str, 1, k - 1)>> \o Split(SubSeq(str, k + 1, Len(str)), sep)

RECURSIVE Strip(_)
\* str.strip()
Strip(str) ==
    IF str = << >> THEN str
    ELSE IF str[1] = " " THEN Strip(Tail(str))
    ELSE IF str[Len(str)] = " " THEN Strip(SubSeq(str, 1, Len(str) - 1))
    ELSE str

\* the sequences over S of length at most n
SeqsUpTo(S, n) == UNION {[1 .. k -> S] : k \in 0 .. n}
IsDistinct(seq) == \A i, j \in 1 .. Len(seq) : i # j => seq[i] # seq[j]

\* the consumer lists a producer may have: up to MaxTargets other agents
TargetLists(source) ==
    {t \in SeqsUpTo(AgentNames \ {source}, MaxTargets) :
        t # << >> /\ IsDistinct(t)}

\* the producer -> consumers maps, before they are written as strings
FlowLists ==
    UNION { {f \in [S -> SeqsUpTo(AgentNames, MaxTargets)] :
                \A a \in S : f[a] \in TargetLists(a)} :
            S \in SUBSET AgentNames }

\* the maps that are one linear chain over all the agents
LinearFlowLists ==
    {f \in FlowLists :
        \E x, y, z \in AgentNames :
            /\ {x, y, z} = AgentNames
            /\ DOMAIN f = {x, y}
            /\ f[x] = <<y>>
            /\ f[y] = <<z>>}

\* AgentChain.data_flow: producer id -> comma-separated consumer ids
DataFlowOf(f) == [a \in DOMAIN f |-> Join(f[a], ",")]

\* what _simulate_agent_execution returns for an agent
AgentResult(id) == [status |-> "success", agent_id |-> id]

\* SubAgent(...) with the dataclass defaults of its counters
SubAgent == [status |-> "idle", total_tasks |-> 0, completed_tasks |-> 0,
             failed_tasks |-> 0]

VARIABLES
    agents,                \* MetaAgentSystem.agents: id -> SubAgent
    agent_chain,           \* the AgentChain the execution runs
    flow_lists,            \* the consumer lists data_flow was written from
    meta_active_workflows, \* MetaAgentSystem.active_workflows (execution ids)
    execution,             \* the WorkflowExecution
    meta_pc,               \* where MetaAgentSystem.execute_workflow is suspended
    execution_order,       \* the list the sequential or pipeline loop walks
    position,              \* the index in execution_order of the awaited agent
    agent_tasks,           \* the tasks of the gather of _execute_parallel
    started                \* the agents in the order their tasks began

mvars == <<agents, agent_chain, flow_lists, meta_active_workflows, execution,
           meta_pc, execution_order, position, agent_tasks, started>>

\* WorkflowExecution(...) before execute_workflow creates one
NoExecution ==
    [status |-> "none", current_agent |-> "None", completed_agents |-> << >>,
     results |-> << >>, errors |-> << >>, end_time |-> FALSE]

\* the execution id of the model's execution, and an id of no execution
ExecutionId == "exec"
UnknownExecution == "exec_unknown"

(***************************************************************************)
(* MetaAgentSystem: _topological_sort.                                     *)
(***************************************************************************)
\* the targets of one data_flow value that are agents of the list, in the
\* order of the string: split at the commas, strip, keep if in agents
FlowTargets(agent_list, targets) ==
    LET pieces == Split(targets, ",")
        stripped == [k \in 1 .. Len(pieces) |-> Strip(pieces[k])]
        idx == SelectIdx([k \in 1 .. Len(pieces) |->
                            \E j \in 1 .. Len(agent_list) :
                                <<agent_list[j]>> = stripped[k]],
                         1, Len(pieces))
    IN  [k \in 1 .. Len(idx) |-> stripped[idx[k]][1]]

\* graph after the loop over data_flow.items()
FlowGraph(agent_list, data_flow) ==
    [a \in Range(agent_list) |->
        IF a \in DOMAIN data_flow THEN FlowTargets(agent_list, data_flow[a])
        ELSE << >>]

\* in_degree after the loop over data_flow.items()
InDegree(agent_list, graph) ==
    LET edges == UNION {{<<a, k>> : k \in 1 .. Len(graph[a])} :
                           a \in Range(agent_list)}
    IN  [a \in Range(agent_list) |->
            Cardinality({e \in edges : graph[e[1]][e[2]] = a})]

RECURSIVE VisitNeighbors(_, _, _)
\* the loop over graph[current]: st is [in_degree, queue]
VisitNeighbors(neighbors, k, st) ==
    IF k > Len(neighbors) THEN st
    ELSE LET n == neighbors[k]
             d == st.in_degree[n] - 1
         IN  VisitNeighbors(neighbors, k + 1,
                 [in_degree |-> [st.in_degree EXCEPT ![n] = d],
                  queue |-> IF d = 0 THEN Append(st.queue, n) ELSE st.queue])

RECURSIVE KahnLoop(_, _, _, _)
\* the while loop over the queue
KahnLoop(queue, result, in_degree, graph) ==
    IF queue = << >> THEN result
    ELSE LET current == Head(queue)
             st == VisitNeighbors(graph[current], 1,
                       [in_degree |-> in_degree, queue |-> Tail(queue)])
         IN  KahnLoop(st.queue, Append(result, current), st.in_degree, graph)

\* the last line of _topological_sort
SortResult(result, agent_list) ==
    IF Len(result) = Len(agent_list) THEN result ELSE agent_list

_topological_sort(agent_list, data_flow) ==
    LET graph == FlowGraph(agent_list, data_flow)
        in_degree == InDegree(agent_list, graph)
        idx == SelectIdx([k \in 1 .. Len(agent_list) |->
                            in_degree[agent_list[k]] = 0],
                         1, Len(agent_list))
        queue == [k \in 1 .. Len(idx) |-> agent_list[idx[k]]]
    IN  SortResult(KahnLoop(queue, << >>, in_degree, graph), agent_list)

(***************************************************************************)
(* MetaAgentSystem: the coroutines.                                        *)
(***************************************************************************)
MetaError(id) == [agent |-> id]
RaisedError == [agent |-> "None"]

\* the index of the first agent of the list at or after k that is in
\* self.agents, 0 when there is none
NextKnown(order, k) ==
    IF \E j \in k .. Len(order) : order[j] \in DOMAIN agents
    THEN CHOOSE j \in k .. Len(order) :
            /\ order[j] \in DOMAIN agents
            /\ \A i \in k .. j - 1 : order[i] \notin DOMAIN agents
    ELSE 0

\* the end of execute_workflow: the status, the end time, the return
MetaFinish(exec, status) ==
    /\ execution' = [exec EXCEPT !.status = status, !.end_time = TRUE]
    /\ meta_pc' = "done"
    /\ position' = 0
    /\ agent_tasks' = << >>

\* the except branch of execute_workflow
MetaFail(exec) ==
    MetaFinish([exec EXCEPT !.errors = Append(exec.errors, RaisedError)],
               "failed")

\* the loop of _execute_sequential or _execute_pipeline from index k of the
\* list, up to the await of the next agent or to the end of the list
WalkFrom(exec, ag, order, k, mode) ==
    LET j == NextKnown(order, k)
    IN  IF j = 0
        THEN /\ MetaFinish(exec, "completed")
             /\ agents' = ag
             /\ UNCHANGED started
        ELSE /\ execution' = IF mode = "sequential"
                             THEN [exec EXCEPT !.current_agent = order[j]]
                             ELSE exec
             /\ agents' = [ag EXCEPT ![order[j]].status = "busy"]
             /\ position' = j
             /\ started' = Append(started, order[j])
             /\ meta_pc' = mode
             /\ agent_tasks' = << >>

\* a gather of the first task only
ParallelTasks_firstOnly(agent_list) ==
    IF \E k \in 1 .. Len(agent_list) : agent_list[k] \in DOMAIN agents
    THEN <<[agent |-> agent_list[NextKnown(agent_list, 1)],
            state |-> "scheduled"]>>
    ELSE << >>

\* the tasks _execute_parallel gives to the gather: one per agent of the
\* list that is in self.agents
ParallelTasks(agent_list) ==
    LET idx == SelectIdx([k \in 1 .. Len(agent_list) |->
                            agent_list[k] \in DOMAIN agents],
                         1, Len(agent_list))
    IN  [k \in 1 .. Len(idx) |-> [agent |-> agent_list[idx[k]],
                                  state |-> "scheduled"]]

\* the agent id the loop after the gather pairs with results[k]
PairedAgent(agent_list, k) == agent_list[k]

RECURSIVE CollectParallel(_, _, _, _)
\* the loop over zip(chain.agents, results) of _execute_parallel
CollectParallel(exec, agent_list, tasks, k) ==
    IF k > Len(agent_list) \/ k > Len(tasks) THEN exec
    ELSE LET agent_id == PairedAgent(agent_list, k)
         IN  IF tasks[k].state = "raised"
             THEN CollectParallel(
                    [exec EXCEPT !.errors = Append(exec.errors, MetaError(agent_id))],
                    agent_list, tasks, k + 1)
             ELSE CollectParallel(
                    [exec EXCEPT !.results = DictSet(exec.results, agent_id,
                                                     AgentResult(tasks[k].agent)),
                                 !.completed_agents =
                                     Append(exec.completed_agents, agent_id)],
                    agent_list, tasks, k + 1)

\* MetaAgentSystem.execute_workflow(chain_id) up to its first suspension
meta_execute_workflow ==
    /\ meta_pc = "idle"
    /\ meta_active_workflows' = meta_active_workflows \cup {ExecutionId}
    /\ LET exec == [NoExecution EXCEPT !.status = "running"]
           mode == agent_chain.execution_mode
       IN  IF mode = "sequential"
           THEN /\ execution_order' = agent_chain.agents
                /\ WalkFrom(exec, agents, agent_chain.agents, 1, mode)
           ELSE IF mode = "pipeline"
           THEN /\ execution_order' =
                      _topological_sort(agent_chain.agents, agent_chain.data_flow)
                /\ WalkFrom(exec, agents, execution_order', 1, mode)
           ELSE /\ execution_order' = agent_chain.agents
                /\ IF ParallelTasks(agent_chain.agents) = << >>
                   THEN MetaFinish(exec, "completed")
                   ELSE /\ execution' = exec
                        /\ agent_tasks' = ParallelTasks(agent_chain.agents)
                        /\ meta_pc' = "parallel"
                        /\ position' = 0
                /\ UNCHANGED <<agents, started>>
    /\ UNCHANGED <<agent_chain, flow_lists>>

\* the counters of an agent after a task that returned
AfterSuccess(agent) ==
    [agent EXCEPT !.total_tasks = @ + 1, !.completed_tasks = @ + 1,
                  !.status = "idle"]

\* the counters of an agent after a task that raised
AfterFailure(agent) ==
    [agent EXCEPT !.failed_tasks = @ + 1, !.status = "idle"]

\* _simulate_agent_execution comes back to the loop of _execute_sequential
\* or _execute_pipeline, which goes on to the next agent
agent_returns(ok) ==
    /\ meta_pc \in {"sequential", "pipeline"}
    /\ LET id == execution_order[position]
       IN  IF ok
           THEN WalkFrom([execution EXCEPT
                              !.results = DictSet(@, id, AgentResult(id)),
                              !.completed_agents = Append(@, id)],
                         [agents EXCEPT ![id] = AfterSuccess(@)],
                         execution_order, position + 1, meta_pc)
           ELSE /\ agents' = [agents EXCEPT ![id] = AfterFailure(@)]
                /\ MetaFail(IF meta_pc = "sequential"
                            THEN [execution EXCEPT
                                    !.errors = Append(@, MetaError(id))]
                            ELSE execution)
                /\ UNCHANGED started
    /\ UNCHANGED <<agent_chain, flow_lists, meta_active_workflows,
                   execution_order>>

\* the tasks of the gather of _execute_parallel start, one after the other
\* in the order of the gather, each up to its await
_execute_agent_task ==
    /\ meta_pc = "parallel"
    /\ \E k \in 1 .. Len(agent_tasks) : agent_tasks[k].state = "scheduled"
    /\ agent_tasks' = [k \in 1 .. Len(agent_tasks) |->
                          [agent_tasks[k] EXCEPT !.state = "calling"]]
    /\ agents' = [a \in DOMAIN agents |->
                     IF \E k \in 1 .. Len(agent_tasks) : agent_tasks[k].agent = a
                     THEN [agents[a] EXCEPT !.status = "busy"]
                     ELSE agents[a]]
    /\ started' = started \o [k \in 1 .. Len(agent_tasks) |-> agent_tasks[k].agent]
    /\ UNCHANGED <<agent_chain, flow_lists, meta_active_workflows, execution,
                   meta_pc, execution_order, position>>

\* _simulate_agent_execution comes back to task k of the gather
agent_task_returns(k, ok) ==
    /\ meta_pc = "parallel"
    /\ k \in 1 .. Len(agent_tasks)
    /\ agent_tasks[k].state = "calling"
    /\ agent_tasks' = [agent_tasks EXCEPT
                          ![k].state = IF ok THEN "returned" ELSE "raised"]
    /\ agents' = [agents EXCEPT ![agent_tasks[k].agent] =
                     IF ok THEN AfterSuccess(@) ELSE AfterFailure(@)]
    /\ UNCHANGED <<agent_chain, flow_lists, meta_active_workflows, execution,
                   meta_pc, execution_order, position, started>>

\* the gather of _execute_parallel returns: the loop over the results, then
\* the end of execute_workflow
_execute_parallel ==
    /\ meta_pc = "parallel"
    /\ \A k \in 1 .. Len(agent_tasks) :
          agent_tasks[k].state \in {"returned", "raised"}
    /\ MetaFinish(CollectParallel(execution, agent_chain.agents, agent_tasks, 1),
                  "completed")
    /\ UNCHANGED <<agents, agent_chain, flow_lists, meta_active_workflows,
                   execution_order, started>>

\* what MetaAgentSystem.get_workflow_status returns: an error record for
\* an id that is not in active_workflows, else the record of the execution
ExecutionStatusOf(id) ==
    IF id \notin meta_active_workflows
    THEN [found |-> FALSE, error |-> id]
    ELSE [found |-> TRUE,
          execution_id |-> id,
          status |-> execution.status,
          progress |-> IF agent_chain.agents # << >>
                       THEN <<Len(execution.completed_agents),
                              Len(agent_chain.agents)>>
                       ELSE <<0, 1>>,
          current_agent |-> execution.current_agent,
          completed_agents |-> execution.completed_agents,
          total_agents |-> Len(agent_chain.agents),
          errors |-> execution.errors,
          results_count |-> Cardinality(DOMAIN execution.results)]

\* MetaAgentSystem.get_workflow_status(execution_id)
meta_get_workflow_status(id) ==
    /\ query_result' = [call |-> "meta.get_workflow_status", id |-> id,
                        value |-> ExecutionStatusOf(id)]
    /\ UNCHANGED mvars

\* the list with its first occurrence of the old id replaced:
\* chain.agents[chain.agents.index(old)] = new
ReplaceFirst(agent_list, old, new) ==
    LET first == CHOOSE k \in 1 .. Len(agent_list) :
                    /\ agent_list[k] = old
                    /\ \A j \in 1 .. k - 1 : agent_list[j] # old
    IN  [agent_list EXCEPT ![first] = new]

\* the executions of active_workflows whose chain the loop of
\* dynamic_agent_replacement changes: the agent is not among their
\* completed_agents and is in the list of their chain
Affected(failing_agent_id) ==
    {id \in meta_active_workflows :
        /\ \A k \in 1 .. Len(execution.completed_agents) :
              execution.completed_agents[k] # failing_agent_id
        /\ \E k \in 1 .. Len(agent_chain.agents) :
              agent_chain.agents[k] = failing_agent_id}

\* MetaAgentSystem.dynamic_agent_replacement(failing_agent_id) for an agent
\* of self.agents.  The capabilities and the load of the agents are inputs:
\* best is "None" when no other agent passes the similarity and load tests,
\* else the candidate that sorts first.  The loop of _execute_sequential
\* walks chain.agents itself, so it meets the new id at the places it has
\* not reached yet.
dynamic_agent_replacement(failing_agent_id, best) ==
    /\ failing_agent_id \in DOMAIN agents
    /\ best \in (DOMAIN agents \ {failing_agent_id}) \cup {"None"}
    /\ IF best = "None"
       THEN /\ query_result' = [call |-> "dynamic_agent_replacement",
                                status |-> "no_suitable_replacement",
                                workflows_affected |-> 0]
            /\ UNCHANGED <<agents, agent_chain, execution_order>>
       ELSE LET replaced == ReplaceFirst(agent_chain.agents,
                                         failing_agent_id, best)
            IN  /\ query_result' =
                      [call |-> "dynamic_agent_replacement",
                       status |-> "success",
                       workflows_affected |->
                           Cardinality(Affected(failing_agent_id))]
                /\ agents' = [agents EXCEPT ![failing_agent_id].status = "error"]
                /\ IF Affected(failing_agent_id) = {}
                   THEN UNCHANGED <<agent_chain, execution_order>>
                   ELSE /\ agent_chain' = [agent_chain EXCEPT !.agents = replaced]
                        /\ execution_order' =
                              IF meta_pc = "sequential"
                              THEN [k \in 1 .. Len(replaced) |->
                                      IF k = position THEN execution_order[k]
                                      ELSE replaced[k]]
                              ELSE execution_order
    /\ UNCHANGED <<flow_lists, meta_active_workflows, execution, meta_pc,
                   position, agent_tasks, started>>

(***************************************************************************)
(* WorkflowEngine._process_step_parameters.                                *)
(* A Python value is a record of its kind and its content: a string is a   *)
(* sequence of characters, a dict the sequence of its (key, value) items   *)
(* in insertion order, a list the sequence of its elements.                *)
(***************************************************************************)
MaxNesting == 2

PyStr(chars) == [kind |-> "str", val |-> chars]
PyInt(n) == [kind |-> "int", val |-> <<n>>]
PyDict(items) == [kind |-> "dict", val |-> items]
PyList(elements) == [kind |-> "list", val |-> elements]
Item(key, value) == [key |-> key, value |-> value]

\* the names a placeholder may hold
NameChoices == {<<"v">>, <<"a">>, <<"x">>}

\* the strings and numbers a parameter may hold: the placeholders of the
\* names, and values that are no placeholder
ScalarChoices ==
    {PyStr(<<"{">> \o n \o <<"}">>) : n \in NameChoices}
      \cup {PyStr(<<"v">>), PyStr(<<"{", "v">>), PyInt(0)}

RECURSIVE ValueChoices(_)
\* the values nested up to depth d
ValueChoices(d) ==
    IF d = 0 THEN ScalarChoices
    ELSE ValueChoices(d - 1)
           \cup {PyDict(<<Item("k", v)>>) : v \in ValueChoices(d - 1)}
           \cup {PyList(<<v>>) : v \in ValueChoices(d - 1)}

\* the parameter dicts the model explores: two keys, one with a nested value
ParameterChoices ==
    {<<Item("p", v), Item("q", w)>> :
        v \in ValueChoices(MaxNesting), w \in ScalarChoices}

\* context.variables and context.step_results: name -> value
VariableChoices ==
    {[n \in D |-> PyInt(IF n = <<"v">> THEN 1 ELSE 2)] : D \in SUBSET {<<"v">>, <<"a">>}}
ResultChoices ==
    {[n \in D |-> PyInt(3)] : D \in SUBSET {<<"a">>}}

\* value.startswith('{') and value.endswith('}')
IsPlaceholder(chars) ==
    /\ Len(chars) >= 1
    /\ chars[1] = "{"
    /\ chars[Len(chars)] = "}"

\* LookupPlaceholder with the two dictionaries looked up in the other order
LookupPlaceholder_resultsFirst(value, variables, results) ==
    LET var_name == SubSeq(value.val, 2, Len(value.val) - 1)
    IN  IF var_name \in DOMAIN results THEN results[var_name]
        ELSE IF var_name \in DOMAIN variables THEN variables[var_name]
        ELSE value

\* the branch of a placeholder string: var_name = value[1:-1], then
\* context.variables, then context.step_results, then the value itself
LookupPlaceholder(value, variables, results) ==
    LET var_name == SubSeq(value.val, 2, Len(value.val) - 1)
    IN  IF var_name \in DOMAIN variables THEN variables[var_name]
        ELSE IF var_name \in DOMAIN results THEN results[var_name]
        ELSE value

RECURSIVE _process_step_parameters(_, _, _)
\* the loop over params.items(): the items of the dict returned
_process_step_parameters(params, variables, results) ==
    [k \in 1 .. Len(params) |->
        LET value == params[k].value
        IN  Item(params[k].key,
                 IF value.kind = "str" /\ IsPlaceholder(value.val)
                 THEN LookupPlaceholder(value, variables, results)
                 ELSE IF value.kind = "dict"
                 THEN PyDict(_process_step_parameters(value.val, variables, results))
                 ELSE IF value.kind = "list"
                 THEN PyList([j \in 1 .. Len(value.val) |->
                         IF value.val[j].kind = "dict"
                         THEN PyDict(_process_step_parameters(
                                         value.val[j].val, variables, results))
                         ELSE value.val[j]])
                 ELSE value)]

\* what a call leaves behind: the dict it returns, and the arguments, which
\* it only reads
ProcessCall(params, variables, results) ==
    [processed |-> _process_step_parameters(params, variables, results),
     params |-> params, variables |-> variables, step_results |-> results]

VARIABLES
    p_params,        \* step.parameters
    p_variables,     \* context.variables
    p_step_results,  \* context.step_results
    p_processed,     \* the dict the call returned
    p_called         \* has _process_step_parameters been called

pvars == <<p_params, p_variables, p_step_results, p_processed, p_called>>

\* no parameters to process
ParamsIdle ==
    /\ p_params = << >>
    /\ p_variables = << >>
    /\ p_step_results = << >>
    /\ p_processed = << >>
    /\ p_called = FALSE

ParamsInit ==
    /\ p_params \in ParameterChoices
    /\ p_variables \in VariableChoices
    /\ p_step_results \in ResultChoices
    /\ p_processed = << >>
    /\ p_called = FALSE

\* processed_params = self._process_step_parameters(step.parameters, context)
process_parameters ==
    /\ ~p_called
    /\ LET out == ProcessCall(p_params, p_variables, p_step_results)
       IN  /\ p_processed' = out.processed
           /\ p_params' = out.params
           /\ p_variables' = out.variables
           /\ p_step_results' = out.step_results
    /\ p_called' = TRUE

(***************************************************************************)
(* UserRepository and UserRegistrationService                              *)
(* (src/src/backend/api/user_registration_api.py).                         *)
(* A string is the sequence of its characters.  Nothing here awaits: every *)
(* method runs in one piece.                                               *)
(***************************************************************************)
MaxUsers == 3

UpperCase == {"A", "B", "C", "D", "E", "F", "G", "H", "I", "J", "K", "L", "M",
              "N", "O", "P", "Q", "R", "S", "T", "U", "V", "W", "X", "Y", "Z"}
LowerCase == {"a", "b", "c", "d", "e", "f", "g", "h", "i", "j", "k", "l", "m",
              "n", "o", "p", "q", "r", "s", "t", "u", "v", "w", "x", "y", "z"}
Digits == {"0", "1", "2", "3", "4", "5", "6", "7", "8", "9"}
AlphaNumeric == UpperCase \cup LowerCase \cup Digits
\* [!@#$%^&*(),.?":{}|<>]
SpecialChars == {"!", "@", "#", "$", "%", "^", "&", "*", "(", ")", ",", ".",
                 "?", "\"", ":", "{", "}", "|", "<", ">"}

\* the usernames the callers try: three that are valid, one that is too
\* short, one with a character that is not allowed, one that is too long,
\* and the empty string
UsernameChoices ==
    { <<"a", "n", "n">>, <<"b", "o", "b">>, <<"c", "_", "9">>,
      <<"a", "b">>, <<"a", " ", "b">>, [k \in 1 .. 21 |-> "a"], << >> }

\* the emails the callers try: three that are valid, one without a top
\* level domain, one that starts with a dot, and the empty string
EmailChoices ==
    { <<"a", "@", "b", ".", "c", "o">>, <<"x", "@", "y", ".", "i", "o">>,
      <<"m", ".", "n", "@", "d", "-", "e", ".", "o", "r", "g">>,
      <<"a", "@", "b">>, <<".", "a", "@", "b", ".", "c", "o">>, << >> }

\* the passwords the callers try: one that is valid, one that is too short,
\* one without a special character, and the empty string
PasswordChoices ==
    { <<"P", "a", "s", "s", "w", "0", "r", "d", "!">>,
      <<"P", "a", "1", "!">>,
      <<"P", "a", "s", "s", "w", "0", "r", "d", "s">>,
      << >> }

\* re.match(r'^[a-zA-Z0-9_]+$', username): '$' also matches before one
\* newline at the end of the string
UsernameMatches(username) ==
    LET n == IF username # << >> /\ username[Len(username)] = "\n"
             THEN Len(username) - 1 ELSE Len(username)
    IN  /\ n >= 1
        /\ \A k \in 1 .. n : username[k] \in AlphaNumeric \cup {"_"}

\* _validate_username: the field of the ValidationError it raises, or None
_validate_username(username) ==
    IF username = << >> THEN "username"
    ELSE IF Len(username) < 3 THEN "username"
    ELSE IF Len(username) > 20 THEN "username"
    ELSE IF ~UsernameMatches(username) THEN "username"
    ELSE "None"

\* [a-zA-Z0-9]([chars]*[a-zA-Z0-9])? : not empty, over chars, and both its
\* first and its last character alphanumeric
EmailPart(str, chars) ==
    /\ str # << >>
    /\ \A k \in 1 .. Len(str) : str[k] \in AlphaNumeric \cup chars
    /\ str[1] \in AlphaNumeric
    /\ str[Len(str)] \in AlphaNumeric

\* re.match(email_pattern, email): local part, '@', domain, '.', at least
\* two letters, and the end of the string or one newline before it
EmailMatches(email) ==
    LET n == IF email # << >> /\ email[Len(email)] = "\n"
             THEN Len(email) - 1 ELSE Len(email)
    IN  \E at \in 1 .. n, dot \in 1 .. n :
           /\ at < dot
           /\ email[at] = "@"
           /\ email[dot] = "."
           /\ EmailPart(SubSeq(email, 1, at - 1), {".", "_", "%", "-"})
           /\ EmailPart(SubSeq(email, at + 1, dot - 1), {".", "-"})
           /\ n - dot >= 2
           /\ \A k \in dot + 1 .. n : email[k] \in UpperCase \cup LowerCase

\* _validate_email: the field of the ValidationError it raises, or None
_validate_email(email) ==
    IF email = << >> THEN "email"
    ELSE IF ~EmailMatches(email) THEN "email"
    ELSE "None"

\* re.search of a character class
Contains(str, chars) == \E k \in 1 .. Len(str) : str[k] \in chars

\* _validate_password: the field of the ValidationError it raises, or None
_validate_password(password) ==
    IF password = << >> THEN "password"
    ELSE IF Len(password) < 8 THEN "password"
    ELSE IF Len(password) > 128 THEN "password"
    ELSE IF ~Contains(password, UpperCase) THEN "password"
    ELSE IF ~Contains(password, LowerCase) THEN "password"
    ELSE IF ~Contains(password, Digits) THEN "password"
    ELSE IF ~Contains(password, SpecialChars) THEN "password"
    ELSE "None"

VARIABLES
    users,            \* UserRepository.users: id -> User
    usernames,        \* UserRepository.usernames
    emails,           \* UserRepository.emails
    register_result   \* the last call of the service or of save, and its outcome

uvars == <<users, usernames, emails, register_result>>

\* the ids a User may get
UserIds == 1 .. MaxUsers

\* User(...): the salt of the hash is new at every call, like the id
User(id, username, email, password) ==
    [id |-> id, username |-> username, email |-> email,
     password_hash |-> [password |-> password, salt |-> id],
     is_active |-> TRUE]

\* str(uuid.uuid4()): an id that no stored user has
NewId(stored) == CHOOSE id \in UserIds : id \notin DOMAIN stored

\* find_by_username: the users the loop over users.values() may return
\* first, empty when it returns None
find_by_username(username) ==
    {id \in DOMAIN users : users[id].username = username}

\* find_by_email, likewise
find_by_email(email) ==
    {id \in DOMAIN users : users[id].email = email}

username_exists(username) == username \in usernames
email_exists(email) == email \in emails

\* the duplicate tests with the test of the email left out
DuplicateField_usernameOnly(username, email) ==
    IF username_exists(username) THEN "username" ELSE "None"

\* the two duplicate tests of register_user: the field of the
\* ValidationError they raise, or None
DuplicateField(username, email) ==
    IF username_exists(username) THEN "username"
    ELSE IF email_exists(email) THEN "email"
    ELSE "None"

\* register_user up to the hashing of the password: the field of the
\* ValidationError that is raised, or None
RegistrationError(username, email, password) ==
    IF _validate_username(username) # "None" THEN _validate_username(username)
    ELSE IF _validate_email(email) # "None" THEN _validate_email(email)
    ELSE IF _validate_password(password) # "None"
         THEN _validate_password(password)
    ELSE DuplicateField(username, email)

\* UserRepository.save(user): the three collections afterwards
SavedUser(user) ==
    [users |-> [id \in DOMAIN users \cup {user.id} |->
                   IF id = user.id THEN user ELSE users[id]],
     usernames |-> usernames \cup {user.username},
     emails |-> emails \cup {user.email}]

\* a register_user that saves the user before it validates
Registered_saveFirst(user, error) == SavedUser(user)

\* the repository after register_user: a ValidationError leaves the method
\* before the save
Registered(user, error) ==
    IF error = "None" THEN SavedUser(user)
    ELSE [users |-> users, usernames |-> usernames, emails |-> emails]

\* register_user(username, email, password)
register_user(username, email, password) ==
    /\ DOMAIN users # UserIds
    /\ LET error == RegistrationError(username, email, password)
           user == User(NewId(users), username, email, password)
           repo == Registered(user, error)
       IN  /\ users' = repo.users
           /\ usernames' = repo.usernames
           /\ emails' = repo.emails
           /\ register_result' =
                  [call |-> "register_user", username |-> username,
                   email |-> email, password |-> password,
                   raised |-> error, success |-> error = "None"]

\* UserRepository.save(user), called directly
save(user) ==
    /\ users' = SavedUser(user).users
    /\ usernames' = SavedUser(user).usernames
    /\ emails' = SavedUser(user).emails
    /\ register_result' =
           [call |-> "save", username |-> user.username,
            email |-> user.email, password |-> user.password_hash.password,
            raised |-> "None", success |-> TRUE]

\* UserRepository() with no user, and no call made yet
UsersIdle ==
    /\ users = << >>
    /\ usernames = {}
    /\ emails = {}
    /\ register_result = [call |-> "none"]

(***************************************************************************)
(* MCPMonitor (src/src/agents/workflows/mcp_monitor.py).                   *)
(* A response time is a whole number of seconds, and an average is the     *)
(* fraction <<numerator, denominator>> the code's arithmetic gives before  *)
(* any rounding.                                                           *)
(***************************************************************************)
MaxCalls == 4

\* the tools _initialize_tool_metrics makes an entry for
KnownTools ==
    {"mcp__supabase__", "mcp__github__", "mcp__context7__", "mcp__exa__",
     "mcp__ide__", "mcp__playwright__", "mcp__taskmanager__",
     "mcp__wonderwhy-er-desktop-commander__"}

\* the tools the callers record calls of: one that is known from the start
\* and one that is not
ToolChoices == {"mcp__github__", "custom_tool"}

\* the response times the callers report: none, one above the warning
\* threshold and one above the critical threshold
ResponseTimes == {0, 3, 6}

\* ToolMetrics(tool_name=...) with the dataclass defaults; the minimum is
\* float('inf') until a response time is recorded; the hour of the
\* clock does not change, so hourly_stats has at most one key
ToolMetrics(tool_name) ==
    [tool_name |-> tool_name, total_calls |-> 0, successful_calls |-> 0,
     failed_calls |-> 0, average_response_time |-> <<0, 1>>,
     min_response_time |-> [inf |-> TRUE, value |-> 0], max_response_time |-> 0,
     last_call_time |-> FALSE, recent_metrics |-> << >>,
     hourly_stats |-> 0]

VARIABLES
    tool_metrics,   \* MCPMonitor.tool_metrics: tool name -> ToolMetrics
    alerts          \* MCPMonitor.alerts

tvars == <<tool_metrics, alerts>>

\* deque(maxlen=...).append
DequeAppend(deque, x, maxlen) ==
    IF Len(deque) < maxlen THEN Append(deque, x)
    ELSE Append(Tail(deque), x)

\* a count that leaves the failed calls out
CountedCall_failureUncounted(metrics, success) ==
    [metrics EXCEPT !.total_calls = @ + 1,
                    !.last_call_time = TRUE,
                    !.successful_calls = IF success THEN @ + 1 ELSE @]

\* lines 139-145: the three counters after one more call
CountedCall(metrics, success) ==
    [metrics EXCEPT !.total_calls = @ + 1,
                    !.last_call_time = TRUE,
                    !.successful_calls = IF success THEN @ + 1 ELSE @,
                    !.failed_calls = IF success THEN @ ELSE @ + 1]

\* lines 148-154: the response time statistics; metrics.total_calls has
\* been raised already
TimedCall(metrics, response_time) ==
    IF response_time > 0
    THEN [metrics EXCEPT
            !.min_response_time =
                IF @.inf \/ response_time < @.value
                THEN [inf |-> FALSE, value |-> response_time] ELSE @,
            !.max_response_time =
                IF @ > response_time THEN @ ELSE response_time,
            !.average_response_time =
                <<@[1] * (metrics.total_calls - 1) + response_time * @[2],
                  @[2] * metrics.total_calls>>]
    ELSE metrics

\* lines 156-169: the recent metrics and the statistics of the hour
LoggedCall(metrics, response_time, success) ==
    [metrics EXCEPT
        !.recent_metrics =
            DequeAppend(@, [response_time |-> response_time,
                            success |-> success], 100),
        !.hourly_stats = @ + 1]

\* is the fraction above the whole number
Above(fraction, threshold) == fraction[1] > threshold * fraction[2]

\* _check_thresholds: the alerts it creates, in order
ThresholdAlerts(tool_name, metrics) ==
    (IF Above(metrics.average_response_time, 5)
     THEN <<[level |-> "CRITICAL", tool_name |-> tool_name,
             title |-> "response_time"]>>
     ELSE IF Above(metrics.average_response_time, 2)
     THEN <<[level |-> "WARNING", tool_name |-> tool_name,
             title |-> "response_time"]>>
     ELSE << >>)
    \o
    (IF metrics.total_calls > 10
     THEN IF 4 * metrics.failed_calls > metrics.total_calls
          THEN <<[level |-> "CRITICAL", tool_name |-> tool_name,
                  title |-> "error_rate"]>>
          ELSE IF 10 * metrics.failed_calls > metrics.total_calls
          THEN <<[level |-> "WARNING", tool_name |-> tool_name,
                  title |-> "error_rate"]>>
          ELSE << >>
     ELSE << >>)

RECURSIVE AppendAll(_, _, _)
\* the deque after the appends of _create_alert
AppendAll(deque, new, maxlen) ==
    IF new = << >> THEN deque
    ELSE AppendAll(DequeAppend(deque, Head(new), maxlen), Tail(new), maxlen)

\* the number of calls recorded so far
RecordedCalls ==
    LET RECURSIVE Sum(_)
        Sum(S) == IF S = {} THEN 0
                  ELSE LET t == CHOOSE t \in S : TRUE
                       IN  tool_metrics[t].total_calls + Sum(S \ {t})
    IN  Sum(DOMAIN tool_metrics)

\* record_tool_call(tool_name, response_time, success)
record_tool_call(tool_name, response_time, success) ==
    /\ RecordedCalls < MaxCalls
    /\ LET known == IF tool_name \in DOMAIN tool_metrics
                    THEN tool_metrics[tool_name]
                    ELSE ToolMetrics(tool_name)
           metrics == LoggedCall(TimedCall(CountedCall(known, success),
                                           response_time),
                                 response_time, success)
       IN  /\ tool_metrics' =
                 [t \in DOMAIN tool_metrics \cup {tool_name} |->
                     IF t = tool_name THEN metrics ELSE tool_metrics[t]]
           /\ alerts' = AppendAll(alerts, ThresholdAlerts(tool_name, metrics),
                                  1000)

\* MCPMonitor(): an entry for every known tool, no alert
MonitorInit ==
    /\ tool_metrics = [t \in KnownTools |-> ToolMetrics(t)]
    /\ alerts = << >>

(***************************************************************************)
(* MCPMonitor: the monitoring loop (start_monitoring, stop_monitoring).    *)
(***************************************************************************)
MaxRounds == 2

\* the calls of start_monitoring the model follows
LoopCalls == {1, 2}

\* the tools in the order _initialize_tool_metrics enters them
KnownToolList ==
    <<"mcp__supabase__", "mcp__github__", "mcp__context7__", "mcp__exa__",
      "mcp__ide__", "mcp__playwright__", "mcp__taskmanager__",
      "mcp__wonderwhy-er-desktop-commander__">>

\* the values random.uniform draws for the cpu usage and for the response
\* time of a health check: one below and one above the warning threshold
CpuChoices == {50, 85}
HealthCheckTimes == {1, 3}

VARIABLES
    monitoring_active,  \* MCPMonitor.monitoring_active
    system_metrics,     \* MCPMonitor.system_metrics
    monitor_loops       \* call of start_monitoring -> where it is

lvars == <<monitoring_active, system_metrics, monitor_loops>>

\* tool_metrics.keys(): the known tools, then the tool a caller added
ToolOrder ==
    KnownToolList \o (IF "custom_tool" \in DOMAIN tool_metrics
                      THEN <<"custom_tool">> ELSE << >>)

\* the metrics and the alerts after record_tool_call
RecordedInto(state, tool_name, response_time, success) ==
    LET known == IF tool_name \in DOMAIN state.tool_metrics
                 THEN state.tool_metrics[tool_name]
                 ELSE ToolMetrics(tool_name)
        metrics == LoggedCall(TimedCall(CountedCall(known, success),
                                        response_time),
                              response_time, success)
    IN  [tool_metrics |->
            [t \in DOMAIN state.tool_metrics \cup {tool_name} |->
                IF t = tool_name THEN metrics ELSE state.tool_metrics[t]],
         alerts |-> AppendAll(state.alerts,
                              ThresholdAlerts(tool_name, metrics), 1000)]

RECURSIVE _simulate_health_checks(_, _, _, _, _)
\* record_tool_call for every tool from place k of the order; the tools of
\* one round get the same response time and the same outcome
_simulate_health_checks(state, order, k, response_time, success) ==
    IF k > Len(order) THEN state
    ELSE _simulate_health_checks(
            RecordedInto(state, order[k], response_time, success),
            order, k + 1, response_time, success)

\* sum(len(m.recent_metrics) for m in self.tool_metrics.values())
QueueSize ==
    LET RECURSIVE Sum(_)
        Sum(S) == IF S = {} THEN 0
                  ELSE LET t == CHOOSE t \in S : TRUE
                       IN  Len(tool_metrics[t].recent_metrics) + Sum(S \ {t})
    IN  Sum(DOMAIN tool_metrics)

\* the SystemMetrics collect_system_metrics builds; the memory usage drawn
\* from uniform(30, 80) is never above a threshold
SystemMetrics(cpu_usage) ==
    [cpu_usage |-> cpu_usage,
     active_workflows |->
         Cardinality({t \in DOMAIN tool_metrics : tool_metrics[t].last_call_time}),
     queue_size |-> QueueSize]

\* _check_system_thresholds: the alerts it creates
SystemAlerts(metrics) ==
    IF metrics.cpu_usage > 95
    THEN <<[level |-> "CRITICAL", tool_name |-> "None", title |-> "cpu"]>>
    ELSE IF metrics.cpu_usage > 80
    THEN <<[level |-> "WARNING", tool_name |-> "None", title |-> "cpu"]>>
    ELSE << >>

\* the body of the while loop up to asyncio.sleep
Round(c, cpu_usage, response_time, success) ==
    /\ Len(system_metrics) < MaxRounds
    /\ system_metrics' = DequeAppend(system_metrics, SystemMetrics(cpu_usage), 1440)
    /\ LET checked ==
             _simulate_health_checks(
                [tool_metrics |-> tool_metrics,
                 alerts |-> AppendAll(alerts,
                                      SystemAlerts(SystemMetrics(cpu_usage)),
                                      1000)],
                ToolOrder, 1, response_time, success)
       IN  /\ tool_metrics' = checked.tool_metrics
           /\ alerts' = checked.alerts
    /\ monitor_loops' = [monitor_loops EXCEPT ![c] = "asleep"]

\* start_monitoring() up to its first asyncio.sleep, or to its return when
\* monitoring is active already
start_monitoring(c, cpu_usage, response_time, success) ==
    /\ monitor_loops[c] = "none"
    /\ IF monitoring_active
       THEN /\ monitor_loops' = [monitor_loops EXCEPT ![c] = "returned"]
            /\ UNCHANGED <<monitoring_active, system_metrics, tool_metrics, alerts>>
       ELSE /\ monitoring_active' = TRUE
            /\ Round(c, cpu_usage, response_time, success)

\* asyncio.sleep comes back: the next test of the loop, then the next round
\* or the finally block and the return
loop_wakes(c, cpu_usage, response_time, success) ==
    /\ monitor_loops[c] = "asleep"
    /\ IF monitoring_active
       THEN /\ Round(c, cpu_usage, response_time, success)
            /\ UNCHANGED monitoring_active
       ELSE /\ monitoring_active' = FALSE
            /\ monitor_loops' = [monitor_loops EXCEPT ![c] = "returned"]
            /\ UNCHANGED <<system_metrics, tool_metrics, alerts>>

\* stop_monitoring()
stop_monitoring ==
    /\ monitoring_active' = FALSE
    /\ UNCHANGED <<system_metrics, monitor_loops, tool_metrics, alerts>>

\* MCPMonitor(): no loop
LoopIdle ==
    /\ monitoring_active = FALSE
    /\ system_metrics = << >>
    /\ monitor_loops = [c \in LoopCalls |-> "none"]

(***************************************************************************)
(* MCPMasterAgent.execute_workflow (mcp_master_agent.py).                  *)
(***************************************************************************)
MaxMasterSteps == 2
MaxSeconds == 1

\* the calls of execute_workflow the model follows
MasterRuns == {1, 2}

\* the one workflow the calls name
WorkflowName == "w"

\* f"step_{i}" for the step at place i of the list, which the model counts
\* from 1 and enumerate from 0
StepKeys == <<"step_0", "step_1", "step_2", "step_3">>
ResultKey(i) == StepKeys[i]

\* the dependency lists of a step of a workflow of n steps: none, or the
\* result key of a step of the list (the step itself and later steps
\* included), or a key that no step of the list has
MasterDepChoices(n) == {{}} \cup {{ResultKey(j)} : j \in 1 .. n + 1}

\* the workflows the model explores: up to MaxMasterSteps steps
MasterWorkflows ==
    UNION { [1 .. n -> [dependencies : MasterDepChoices(n)]] :
            n \in 0 .. MaxMasterSteps }

VARIABLES
    master_workflow,          \* self.workflows[WorkflowName].steps
    clock,                    \* int(time.time())
    master_active_workflows,  \* self.active_workflows: execution id -> the call whose record it holds
    execution_result,         \* call -> the execution_result dict of the call
    master_pc,                \* call -> where execute_workflow is suspended
    master_step,              \* call -> the place of the awaited step
    mcp_calls                 \* call -> the places of the steps invoked, in order

avars == <<master_workflow, clock, master_active_workflows, execution_result,
           master_pc, master_step, mcp_calls>>

\* f"{workflow_name}_{int(time.time())}"
MasterExecutionId(workflow_name, second) ==
    [workflow_name |-> workflow_name, second |-> second]

\* no execution_result: the call has not been made
NoResult == [status |-> "none"]

\* the dependency check that never raises
MissingDependency_never(step, results) == FALSE

\* the dependency check of the loop: some dependency is no key of
\* step_results
MissingDependency(step, results) ==
    \E dep \in step.dependencies : dep \notin results

\* the end of execute_workflow with this record
MasterDone(r, rec, calls) ==
    /\ execution_result' = [execution_result EXCEPT ![r] = rec]
    /\ master_pc' = [master_pc EXCEPT ![r] = "done"]
    /\ master_step' = [master_step EXCEPT ![r] = 0]
    /\ mcp_calls' = calls

\* the except branch
MasterError(r, rec, calls, error) ==
    MasterDone(r, [rec EXCEPT !.status = "error",
                              !.errors = Append(@, error)], calls)

\* the loop over workflow.steps from place i, up to the await of
\* _simulate_mcp_call or to the end of execute_workflow; the keys of
\* step_results are the keys of execution_result["results"]
MasterLoop(r, rec, i, calls) ==
    IF i > Len(master_workflow)
    THEN MasterDone(r, [rec EXCEPT !.status = "completed"], calls)
    ELSE IF MissingDependency(master_workflow[i], rec.results)
    THEN MasterError(r, rec, calls, "dependency")
    ELSE /\ execution_result' = [execution_result EXCEPT ![r] = rec]
         /\ master_pc' = [master_pc EXCEPT ![r] = "call"]
         /\ master_step' = [master_step EXCEPT ![r] = i]
         /\ mcp_calls' = [calls EXCEPT ![r] = Append(@, i)]

\* execute_workflow(WorkflowName) is called, up to its first await
master_execute_workflow(r) ==
    /\ master_pc[r] = "idle"
    /\ LET id == MasterExecutionId(WorkflowName, clock)
           rec == [execution_id |-> id, status |-> "running",
                   steps_completed |-> 0,
                   total_steps |-> Len(master_workflow),
                   results |-> {}, errors |-> << >>]
       IN  /\ master_active_workflows' =
                 [x \in DOMAIN master_active_workflows \cup {id} |->
                     IF x = id THEN r ELSE master_active_workflows[x]]
           /\ MasterLoop(r, rec, 1, mcp_calls)
    /\ UNCHANGED <<master_workflow, clock>>

\* _simulate_mcp_call comes back to the loop, or raises
master_call_returns(r, ok) ==
    /\ master_pc[r] = "call"
    /\ LET i == master_step[r]
           rec == execution_result[r]
       IN  IF ok
           THEN MasterLoop(r, [rec EXCEPT !.results = @ \cup {ResultKey(i)},
                                          !.steps_completed = i],
                           i + 1, mcp_calls)
           ELSE MasterError(r, rec, mcp_calls, "call")
    /\ UNCHANGED <<master_workflow, clock, master_active_workflows>>

\* the clock reaches the next second
tick ==
    /\ clock < MaxSeconds
    /\ clock' = clock + 1
    /\ UNCHANGED <<master_workflow, master_active_workflows, execution_result,
                   master_pc, master_step, mcp_calls>>

\* MCPMasterAgent() with no call made
MasterStart ==
    /\ clock = 0
    /\ master_active_workflows = << >>
    /\ execution_result = [r \in MasterRuns |-> NoResult]
    /\ master_pc = [r \in MasterRuns |-> "idle"]
    /\ master_step = [r \in MasterRuns |-> 0]
    /\ mcp_calls = [r \in MasterRuns |-> << >>]

MasterIdle == master_workflow = << >> /\ MasterStart

MasterInit == master_workflow \in MasterWorkflows /\ MasterStart

\* the state of the services beside the workflow code
svars == <<uvars, tvars, avars, lvars>>
ServicesIdle == UsersIdle /\ MonitorInit /\ MasterIdle /\ LoopIdle

(***************************************************************************)
(* Specifications.                                                         *)
(***************************************************************************)
vars == <<evars, mvars, pvars, svars, query_result>>

\* MetaAgentSystem with no execution started
MetaIdle ==
    /\ agents = [a \in AgentNames |-> SubAgent]
    /\ agent_chain = [agents |-> << >>, execution_mode |-> "sequential",
                      data_flow |-> << >>]
    /\ flow_lists = << >>
    /\ meta_active_workflows = {}
    /\ execution = NoExecution
    /\ meta_pc = "idle"
    /\ execution_order = << >>
    /\ position = 0
    /\ agent_tasks = << >>
    /\ started = << >>

Init == EngineInit /\ MetaIdle /\ ParamsIdle /\ ServicesIdle

\* one run of the template, with a caller that may cancel it at any moment
Next ==
    \E r \in {1} :
        \/ \E parameters \in SUBSET VariableNames :
              execute_workflow(r, parameters) /\ UNCHANGED <<mvars, pvars, svars>> /\ query_result' = NoCall
        \/ _execute_step(r) /\ UNCHANGED <<mvars, pvars, svars>> /\ query_result' = NoCall
        \/ \E i \in 1 .. MaxSteps, ok \in BOOLEAN :
              _simulate_mcp_call(r, i, ok) /\ UNCHANGED <<mvars, pvars, svars>> /\ query_result' = NoCall
        \/ _execute_workflow_steps(r) /\ UNCHANGED <<mvars, pvars, svars>> /\ query_result' = NoCall
        \/ cancel_workflow(r) /\ UNCHANGED <<mvars, pvars, svars>> /\ query_result' = NoCall

Spec == Init /\ [][Next]_vars

\* a run id that no run has
UnknownRun == 0

\* the templates of the specifications below: fewer steps than StepNames has
RunTemplates == {t \in Templates : Len(t) < MaxSteps}

\* the runs that execute side by side
Concurrent == {1, 2}

InitRuns ==
    /\ EngineInit
    /\ workflow_templates \in RunTemplates
    /\ \A i \in 1 .. Len(workflow_templates) :
          GhostId \notin workflow_templates[i].dependencies
    /\ MetaIdle
    /\ ParamsIdle
    /\ ServicesIdle

\* two runs of one template side by side
NextRuns ==
    \/ \E r \in Concurrent, parameters \in SUBSET VariableNames :
          execute_workflow(r, parameters)
            /\ UNCHANGED <<mvars, pvars, svars>> /\ query_result' = NoCall
    \/ \E r \in Concurrent :
          _execute_step(r) /\ UNCHANGED <<mvars, pvars, svars>> /\ query_result' = NoCall
    \/ \E r \in Concurrent, i \in 1 .. MaxSteps, ok \in BOOLEAN :
          _simulate_mcp_call(r, i, ok)
            /\ UNCHANGED <<mvars, pvars, svars>> /\ query_result' = NoCall
    \/ \E r \in Concurrent :
          _execute_workflow_steps(r)
            /\ UNCHANGED <<mvars, pvars, svars>> /\ query_result' = NoCall

SpecRuns == InitRuns /\ [][NextRuns]_vars

InitQueries ==
    /\ EngineInit
    /\ workflow_templates \in RunTemplates
    /\ MetaIdle
    /\ ParamsIdle
    /\ ServicesIdle

\* one run of the template, with a caller that cancels and queries at any
\* moment, under the id of the run and under ids that no run has
NextQueries ==
    \/ \E parameters \in SUBSET VariableNames :
          execute_workflow(1, parameters)
            /\ UNCHANGED <<mvars, pvars, svars>> /\ query_result' = NoCall
    \/ _execute_step(1) /\ UNCHANGED <<mvars, pvars, svars>> /\ query_result' = NoCall
    \/ \E i \in 1 .. MaxSteps, ok \in BOOLEAN :
          _simulate_mcp_call(1, i, ok)
            /\ UNCHANGED <<mvars, pvars, svars>> /\ query_result' = NoCall
    \/ _execute_workflow_steps(1)
            /\ UNCHANGED <<mvars, pvars, svars>> /\ query_result' = NoCall
    \/ \E id \in {1, 2, UnknownRun} :
          cancel_workflow(id) /\ UNCHANGED <<mvars, pvars, svars>> /\ query_result' = NoCall
    \/ \E id \in {1, UnknownRun} :
          get_workflow_status(id) /\ UNCHANGED <<mvars, pvars, svars>>
    \/ \E status_filter \in {"None", "completed"} :
          list_workflows(status_filter) /\ UNCHANGED <<mvars, pvars, svars>>

SpecQueries == InitQueries /\ [][NextQueries]_vars

\* WorkflowEngine with no run started and no template step
EngineIdle ==
    /\ workflow_templates = << >>
    /\ active_workflows = {}
    /\ completed_workflows = {}
    /\ wf_status = [r \in RunIds |-> "none"]
    /\ wf_steps = [r \in RunIds |-> << >>]
    /\ step_refs = [r \in RunIds |-> << >>]
    /\ ctx_variables = [r \in RunIds |-> {}]
    /\ step_results = [r \in RunIds |-> << >>]
    /\ error_log = [r \in RunIds |-> << >>]
    /\ end_time = [r \in RunIds |-> FALSE]
    /\ pc = [r \in RunIds |-> "idle"]
    /\ completed_steps = [r \in RunIds |-> {}]
    /\ ready_steps = [r \in RunIds |-> << >>]
    /\ task = [r \in RunIds |-> NoTasks]
    /\ invocations = [r \in RunIds |-> NoInvocations]
    /\ failures = [r \in RunIds |-> NoInvocations]
    /\ cancel_result = "none"
    /\ query_result = NoCall

\* the chains the model explores: any list of up to MaxAgents agent ids
\* (repeated ids included); in Pipeline mode any data-flow map, in the
\* modes that never read data_flow the empty map or a linear chain
MetaInit ==
    /\ \E known \in {AgentNames, AgentNames \ {"C"}} :
          agents = [a \in known |-> SubAgent]
    /\ flow_lists \in FlowLists
    /\ \E agent_list \in SeqsUpTo(AgentNames, MaxAgents),
          mode \in {"sequential", "parallel", "pipeline"} :
          /\ mode # "pipeline"
                => flow_lists \in LinearFlowLists \cup {<< >>}
          /\ agent_chain = [agents |-> agent_list, execution_mode |-> mode,
                            data_flow |-> DataFlowOf(flow_lists)]
    /\ meta_active_workflows = {}
    /\ execution = NoExecution
    /\ meta_pc = "idle"
    /\ execution_order = << >>
    /\ position = 0
    /\ agent_tasks = << >>
    /\ started = << >>

MetaNext ==
    \/ meta_execute_workflow /\ UNCHANGED <<evars, pvars, svars>> /\ query_result' = NoCall
    \/ \E ok \in BOOLEAN : agent_returns(ok) /\ UNCHANGED <<evars, pvars, svars>> /\ query_result' = NoCall
    \/ _execute_agent_task /\ UNCHANGED <<evars, pvars, svars>> /\ query_result' = NoCall
    \/ \E k \in 1 .. MaxAgents, ok \in BOOLEAN :
          agent_task_returns(k, ok) /\ UNCHANGED <<evars, pvars, svars>> /\ query_result' = NoCall
    \/ _execute_parallel /\ UNCHANGED <<evars, pvars, svars>> /\ query_result' = NoCall

InitMeta == EngineIdle /\ MetaInit /\ ParamsIdle /\ ServicesIdle

\* one execution of a chain of MetaAgentSystem
SpecMeta == InitMeta /\ [][MetaNext]_vars

\* a template of at most one step, and a chain of at most two agents that
\* runs in Sequential or Parallel mode
InitStatus ==
    /\ EngineInit
    /\ Len(workflow_templates) <= 1
    /\ \E known \in {AgentNames, AgentNames \ {"C"}} :
          agents = [a \in known |-> SubAgent]
    /\ flow_lists = << >>
    /\ \E agent_list \in SeqsUpTo({"A", "C"}, 2),
          mode \in {"sequential", "parallel"} :
          agent_chain = [agents |-> agent_list, execution_mode |-> mode,
                         data_flow |-> DataFlowOf(flow_lists)]
    /\ meta_active_workflows = {}
    /\ execution = NoExecution
    /\ meta_pc = "idle"
    /\ execution_order = << >>
    /\ position = 0
    /\ agent_tasks = << >>
    /\ started = << >>
    /\ ParamsIdle
    /\ ServicesIdle

\* a run of the engine and an execution of the meta agent system, each
\* with a caller that asks for the status under any id at any moment
NextStatus ==
    \/ \E parameters \in SUBSET VariableNames :
          execute_workflow(1, parameters)
            /\ UNCHANGED <<mvars, pvars, svars>> /\ query_result' = NoCall
    \/ _execute_step(1) /\ UNCHANGED <<mvars, pvars, svars>> /\ query_result' = NoCall
    \/ \E i \in 1 .. MaxSteps, ok \in BOOLEAN :
          _simulate_mcp_call(1, i, ok)
            /\ UNCHANGED <<mvars, pvars, svars>> /\ query_result' = NoCall
    \/ _execute_workflow_steps(1)
            /\ UNCHANGED <<mvars, pvars, svars>> /\ query_result' = NoCall
    \/ \E id \in {1, UnknownRun} :
          get_workflow_status(id) /\ UNCHANGED <<mvars, pvars, svars>>
    \/ meta_execute_workflow /\ UNCHANGED <<evars, pvars, svars>> /\ query_result' = NoCall
    \/ \E ok \in BOOLEAN :
          agent_returns(ok) /\ UNCHANGED <<evars, pvars, svars>> /\ query_result' = NoCall
    \/ _execute_agent_task /\ UNCHANGED <<evars, pvars, svars>> /\ query_result' = NoCall
    \/ \E k \in 1 .. MaxAgents, ok \in BOOLEAN :
          agent_task_returns(k, ok)
            /\ UNCHANGED <<evars, pvars, svars>> /\ query_result' = NoCall
    \/ _execute_parallel /\ UNCHANGED <<evars, pvars, svars>> /\ query_result' = NoCall
    \/ \E id \in {ExecutionId, UnknownExecution} :
          meta_get_workflow_status(id) /\ UNCHANGED <<evars, pvars, svars>>

SpecStatus == InitStatus /\ [][NextStatus]_vars

InitParams == EngineIdle /\ MetaIdle /\ ParamsInit /\ ServicesIdle

NextParams == process_parameters /\ UNCHANGED <<evars, mvars, svars, query_result>>

\* one call of _process_step_parameters on any of the parameter dicts
SpecParams == InitParams /\ [][NextParams]_vars

\* what the event loop does on its own for run 1: it starts the tasks of a
\* gather, and it resumes _execute_workflow_steps once every task is done
Scheduled ==
    \/ _execute_step(1) /\ UNCHANGED <<mvars, pvars, svars>> /\ query_result' = NoCall
    \/ _execute_workflow_steps(1)
            /\ UNCHANGED <<mvars, pvars, svars>> /\ query_result' = NoCall

\* what the invoked capability does: it comes back, with a result or with
\* an exception
Returns ==
    \E i \in 1 .. MaxSteps, ok \in BOOLEAN :
        _simulate_mcp_call(1, i, ok)
          /\ UNCHANGED <<mvars, pvars, svars>> /\ query_result' = NoCall

NextTimeout ==
    \/ \E parameters \in SUBSET VariableNames :
          execute_workflow(1, parameters)
            /\ UNCHANGED <<mvars, pvars, svars>> /\ query_result' = NoCall
    \/ Scheduled
    \/ Returns

\* one run with a fair event loop: a coroutine that can go on does go on,
\* while nothing obliges an invoked capability to come back.  _execute_step
\* awaits _simulate_mcp_call directly and WorkflowStep.timeout is read
\* nowhere, so no step of the engine ends a call that is in progress.
SpecTimeout == InitQueries /\ [][NextTimeout]_vars /\ WF_vars(Scheduled)

\* the same run when every invoked capability comes back
SpecReturns == SpecTimeout /\ WF_vars(Returns)

\* the workflow code with nothing started
WorkflowsIdle == EngineIdle /\ MetaIdle /\ ParamsIdle

InitRegister == WorkflowsIdle /\ ServicesIdle

NextRegister ==
    \E username \in UsernameChoices, email \in EmailChoices,
       password \in PasswordChoices :
        register_user(username, email, password)
          /\ UNCHANGED <<evars, mvars, pvars, tvars, avars, lvars, query_result>>

\* any sequence of register_user calls on one repository
SpecRegister == InitRegister /\ [][NextRegister]_vars

\* the users a caller of save may pass: any id, with a username, an email
\* and a password that pass the validation of the service
SaveChoices ==
    {User(id, username, email, <<"P", "a", "s", "s", "w", "0", "r", "d", "!">>) :
        id \in UserIds,
        username \in {<<"a", "n", "n">>, <<"b", "o", "b">>},
        email \in {<<"a", "@", "b", ".", "c", "o">>,
                   <<"x", "@", "y", ".", "i", "o">>}}

\* the service and a caller of save on one repository, with the same
\* usernames, emails and password
NextRepository ==
    \/ \E user \in SaveChoices :
          register_user(user.username, user.email, user.password_hash.password)
            /\ UNCHANGED <<evars, mvars, pvars, tvars, avars, lvars, query_result>>
    \/ \E user \in SaveChoices :
          save(user) /\ UNCHANGED <<evars, mvars, pvars, tvars, avars, lvars, query_result>>

\* any sequence of register_user and UserRepository.save calls
SpecRepository == InitRegister /\ [][NextRepository]_vars

NextMonitor ==
    \E tool_name \in ToolChoices, response_time \in ResponseTimes,
       success \in BOOLEAN :
        record_tool_call(tool_name, response_time, success)
          /\ UNCHANGED <<evars, mvars, pvars, uvars, avars, lvars, query_result>>

\* any sequence of record_tool_call calls on one monitor
SpecMonitor == InitRegister /\ [][NextMonitor]_vars

\* the condition dictionaries of the built-in templates and of
\* _check_step_conditions
ConditionKinds ==
    { [type |-> "approval_required"],
      [type |-> "file_exists"],
      [type |-> "variable_exists", variable |-> "v"] }

\* the condition lists of a step: up to two conditions, in any order
ConditionLists ==
    {<< >>} \cup {<<c>> : c \in ConditionKinds}
            \cup {<<c, d>> : c \in ConditionKinds, d \in ConditionKinds}

\* templates of one or two steps that wait for nothing, the first with a
\* list of conditions
ConditionTemplates ==
    UNION { { [i \in 1 .. n |->
                 WorkflowStep(StepId(i), StepParameters(StepId(i)), {},
                              IF i = 1 THEN cond ELSE << >>, retry)] :
              cond \in ConditionLists, retry \in 0 .. MaxRetries } :
            n \in 1 .. 2 }

InitConditions ==
    /\ workflow_templates \in ConditionTemplates
    /\ active_workflows = {}
    /\ completed_workflows = {}
    /\ wf_status = [r \in RunIds |-> "none"]
    /\ wf_steps = [r \in RunIds |-> << >>]
    /\ step_refs = [r \in RunIds |-> << >>]
    /\ ctx_variables = [r \in RunIds |-> {}]
    /\ step_results = [r \in RunIds |-> << >>]
    /\ error_log = [r \in RunIds |-> << >>]
    /\ end_time = [r \in RunIds |-> FALSE]
    /\ pc = [r \in RunIds |-> "idle"]
    /\ completed_steps = [r \in RunIds |-> {}]
    /\ ready_steps = [r \in RunIds |-> << >>]
    /\ task = [r \in RunIds |-> NoTasks]
    /\ invocations = [r \in RunIds |-> NoInvocations]
    /\ failures = [r \in RunIds |-> NoInvocations]
    /\ cancel_result = "none"
    /\ query_result = NoCall
    /\ MetaIdle
    /\ ParamsIdle
    /\ ServicesIdle

NextConditions ==
    \/ \E parameters \in SUBSET VariableNames :
          execute_workflow(1, parameters)
            /\ UNCHANGED <<mvars, pvars, svars>> /\ query_result' = NoCall
    \/ _execute_step(1) /\ UNCHANGED <<mvars, pvars, svars>> /\ query_result' = NoCall
    \/ \E i \in 1 .. MaxSteps, ok \in BOOLEAN :
          _simulate_mcp_call(1, i, ok)
            /\ UNCHANGED <<mvars, pvars, svars>> /\ query_result' = NoCall
    \/ _execute_workflow_steps(1)
            /\ UNCHANGED <<mvars, pvars, svars>> /\ query_result' = NoCall

\* one run of a template whose first step has several conditions
SpecConditions == InitConditions /\ [][NextConditions]_vars

InitMaster == WorkflowsIdle /\ UsersIdle /\ MonitorInit /\ LoopIdle /\ MasterInit

NextMaster ==
    \/ \E r \in MasterRuns :
          master_execute_workflow(r)
            /\ UNCHANGED <<evars, mvars, pvars, uvars, tvars, lvars, query_result>>
    \/ \E r \in MasterRuns, ok \in BOOLEAN :
          master_call_returns(r, ok)
            /\ UNCHANGED <<evars, mvars, pvars, uvars, tvars, lvars, query_result>>
    \/ tick /\ UNCHANGED <<evars, mvars, pvars, uvars, tvars, lvars, query_result>>

\* two calls of MCPMasterAgent.execute_workflow for one workflow, at any
\* moments of the clock
SpecMaster == InitMaster /\ [][NextMaster]_vars

\* a chain of at most two agents with no data flow
InitReplacement ==
    /\ InitMeta
    /\ Len(agent_chain.agents) <= 2
    /\ flow_lists = << >>

NextReplacement ==
    \/ MetaNext
    \/ \E failing_agent_id \in AgentNames, best \in AgentNames \cup {"None"} :
          dynamic_agent_replacement(failing_agent_id, best)
            /\ UNCHANGED <<evars, pvars, svars>>

\* one execution of a chain, and a caller of dynamic_agent_replacement at
\* any moment before, during and after it
SpecReplacement == InitReplacement /\ [][NextReplacement]_vars

NextLoop ==
    \/ \E c \in LoopCalls, cpu_usage \in CpuChoices,
          response_time \in HealthCheckTimes, success \in BOOLEAN :
          start_monitoring(c, cpu_usage, response_time, success)
            /\ UNCHANGED <<evars, mvars, pvars, uvars, avars, query_result>>
    \/ \E c \in LoopCalls, cpu_usage \in CpuChoices,
          response_time \in HealthCheckTimes, success \in BOOLEAN :
          loop_wakes(c, cpu_usage, response_time, success)
            /\ UNCHANGED <<evars, mvars, pvars, uvars, avars, query_result>>
    \/ stop_monitoring
            /\ UNCHANGED <<evars, mvars, pvars, uvars, avars, query_result>>

\* two calls of start_monitoring and any number of calls of
\* stop_monitoring on one monitor, in any order
SpecLoop == InitRegister /\ [][NextLoop]_vars

(***************************************************************************)
(* Claims about WorkflowEngine.                                            *)
(***************************************************************************)
StepIdx(r) == 1 .. Len(wf_steps[r])
LastEntry(r) == error_log[r][Len(error_log[r])]
\* the index of the step of run r with this id, 0 when no step has it
IndexOfId(r, id) ==
    IF \E i \in StepIdx(r) : wf_steps[r][i].id = id
    THEN CHOOSE i \in StepIdx(r) : wf_steps[r][i].id = id
    ELSE 0
DependencyCompleted(r, dep) ==
    /\ IndexOfId(r, dep) # 0
    /\ wf_steps[r][IndexOfId(r, dep)].status = "completed"
    /\ dep \in DOMAIN step_results[r]

\* C1: a step is Running only if every step id listed in its dependencies
\* names a step of the run that has already completed in this run; this
\* holds in every batch, the batches that re-run a retried step included.
C1_RunningOnlyAfterDependencies ==
    \A r \in RunIds : \A i \in StepIdx(r) :
        (wf_steps[r][i].status = "running" \/ task[r][i] # "none")
            => \A dep \in wf_steps[r][i].dependencies : DependencyCompleted(r, dep)

\* a retried step with two dependencies is running again
C1_Witness ==
    \E i \in StepIdx(1) :
        /\ wf_steps[1][i].status = "running"
        /\ Cardinality(wf_steps[1][i].dependencies) = 2
        /\ invocations[1][i] = 2

\* the steps of run r that have not completed, as ids in list order
UnresolvedIds(r) ==
    LET idx == SelectIdx([i \in StepIdx(r) |->
                            wf_steps[r][i].status # "completed"],
                         1, Len(wf_steps[r]))
    IN  [k \in 1 .. Len(idx) |-> wf_steps[r][idx[k]].id]
NoWaitingStepSatisfied(r) ==
    \A i \in StepIdx(r) :
        wf_steps[r][i].status = "waiting"
            => \E dep \in wf_steps[r][i].dependencies : ~DependencyCompleted(r, dep)
\* execute_workflow has returned and was not left by the exception of a step
EndedWithoutStepFailure(r) ==
    /\ pc[r] = "done"
    /\ (error_log[r] # << >> => LastEntry(r).kind # "error")

\* C2: when the scheduler finds no Waiting step with all its dependencies
\* satisfied while some step is unresolved, the run ends Failed with a
\* deadlock entry that names exactly the unresolved step ids, and none of
\* those steps was ever started; a batch being gathered is never empty.
C2_DeadlockAborts ==
    \A r \in RunIds :
        /\ pc[r] = "gather" => ready_steps[r] # << >>
        /\ (EndedWithoutStepFailure(r) /\ NoWaitingStepSatisfied(r)
              /\ UnresolvedIds(r) # << >>)
             => /\ wf_status[r] = "failed"
                /\ error_log[r] # << >>
                /\ LastEntry(r) = DeadlockLogEntry(UnresolvedIds(r))
                /\ \A i \in StepIdx(r) :
                      wf_steps[r][i].status # "completed"
                          => /\ wf_steps[r][i].status = "waiting"
                             /\ invocations[r][i] = 0

\* a run that completed one step and then stopped on two steps that depend
\* on each other
C2_Witness ==
    /\ pc[1] = "done"
    /\ error_log[1] # << >>
    /\ LastEntry(1).kind = "deadlock"
    /\ Len(LastEntry(1).ids) = 2
    /\ \E i \in StepIdx(1) : wf_steps[1][i].status = "completed"
    /\ \E i, j \in StepIdx(1) :
          /\ i # j
          /\ wf_steps[1][j].id \in wf_steps[1][i].dependencies
          /\ wf_steps[1][i].id \in wf_steps[1][j].dependencies

MaxRetriesOf(i) == workflow_templates[i].retry_count
LoggedStep(r, id) ==
    \E k \in 1 .. Len(error_log[r]) : id \in Range(error_log[r][k].ids)

\* C3: a step whose invocation failed max_retries+1 times in a row ends
\* Failed, the run ends Failed and error_log has an entry that references
\* the step's id.
C3_ExhaustedStepFailsRun ==
    \A r \in RunIds : \A i \in StepIdx(r) :
        (pc[r] = "done" /\ failures[r][i] = MaxRetriesOf(i) + 1)
            => /\ invocations[r][i] = MaxRetriesOf(i) + 1
               /\ wf_steps[r][i].status = "failed"
               /\ wf_status[r] = "failed"
               /\ LoggedStep(r, wf_steps[r][i].id)

\* C4: a step that failed k times, 1 <= k <= max_retries, and then
\* succeeded ends Completed with its result stored and its retry budget
\* lowered by k.
C4_RetriedStepCompletes ==
    \A r \in RunIds : \A i \in StepIdx(r) :
        (/\ pc[r] = "done"
         /\ failures[r][i] >= 1
         /\ failures[r][i] <= MaxRetriesOf(i)
         /\ invocations[r][i] = failures[r][i] + 1)
            => /\ wf_steps[r][i].status = "completed"
               /\ wf_steps[r][i].retry_count = MaxRetriesOf(i) - failures[r][i]
               /\ wf_steps[r][i].id \in DOMAIN step_results[r]
               /\ step_results[r][wf_steps[r][i].id] =
                     [step |-> wf_steps[r][i].id, attempt |-> invocations[r][i]]

\* C10: cancel_workflow on a run that is in active_workflows returns true,
\* sets the run status to Cancelled, turns every Running step into Failed
\* with the cancellation error, and leaves every other step and the
\* recorded step results as they were.
C10_CancelActiveRun ==
    [][\A r \in RunIds :
          (cancel_workflow(r) /\ r \in active_workflows)
              => /\ cancel_result' = "true"
                 /\ wf_status'[r] = "cancelled"
                 /\ Len(wf_steps'[r]) = Len(wf_steps[r])
                 /\ \A i \in StepIdx(r) :
                       IF wf_steps[r][i].status = "running"
                       THEN /\ wf_steps'[r][i].status = "failed"
                            /\ wf_steps'[r][i].error = "Workflow cancelled"
                       ELSE wf_steps'[r][i] = wf_steps[r][i]
                 /\ step_results' = step_results]_vars

\* a cancellation has just failed a Running step of a run that also has a
\* Waiting step and a Completed step with its result
C10_Witness ==
    /\ cancel_result = "true"
    /\ wf_status[1] = "cancelled"
    /\ \E i, j, k \in StepIdx(1) :
          /\ wf_steps[1][i].status = "failed"
          /\ wf_steps[1][i].error = "Workflow cancelled"
          /\ wf_steps[1][j].status = "waiting"
          /\ wf_steps[1][k].status = "completed"
          /\ wf_steps[1][k].id \in DOMAIN step_results[1]

\* C14: a step's result is written at most once: step_results gains a key
\* only for a step of the batch that completes in that very step of the
\* run, the key is the id of that step, and neither the entry nor the
\* step's result is written again by a later batch or a retry.
C14_ResultWrittenOnce ==
    [][ \A r \in RunIds :
          /\ DOMAIN step_results'[r] \subseteq
                {wf_steps'[r][i].id : i \in 1 .. Len(wf_steps'[r])}
          /\ \A i \in StepIdx(r) :
                LET id == wf_steps[r][i].id
                IN  /\ id \in DOMAIN step_results[r]
                        => /\ id \in DOMAIN step_results'[r]
                           /\ step_results'[r][id] = step_results[r][id]
                           /\ wf_steps'[r][i].result = wf_steps[r][i].result
                    /\ (id \notin DOMAIN step_results[r]
                          /\ id \in DOMAIN step_results'[r])
                        => /\ i \in Range(ready_steps[r])
                           /\ wf_steps[r][i].status # "completed"
                           /\ wf_steps'[r][i].status = "completed"
                           /\ wf_steps'[r][i].result = step_results'[r][id]
                    /\ wf_steps'[r][i].result # wf_steps[r][i].result
                        => id \notin DOMAIN step_results[r] ]_vars

\* a step completed at its second attempt, in a later batch than another
\* step whose result was already stored, and a third step completed after
\* both
C14_Witness ==
    /\ pc[1] = "done"
    /\ wf_status[1] = "completed"
    /\ Cardinality(DOMAIN step_results[1]) = 3
    /\ \E i, j \in StepIdx(1) :
          /\ step_results[1][wf_steps[1][i].id].attempt = 2
          /\ step_results[1][wf_steps[1][j].id].attempt = 1
          /\ wf_steps[1][i].id \in wf_steps[1][j].dependencies

\* C15: while the gather of a batch is pending, the batch is the whole set
\* of steps that were ready when it was formed (no step outside it is
\* Waiting with all its dependencies completed), no step outside the batch
\* has a task or is Running, and the batch is replaced by the next one
\* only when every task of it has resolved.
C15_BatchFanOutFanIn ==
    /\ [](\A r \in RunIds :
            /\ pc[r] = "gather"
                 => \A i \in StepIdx(r) :
                       i \notin Range(ready_steps[r])
                         => /\ task[r][i] = "none"
                            /\ wf_steps[r][i].status # "running"
                            /\ ~(/\ wf_steps[r][i].status = "waiting"
                                 /\ \A dep \in wf_steps[r][i].dependencies :
                                       DependencyCompleted(r, dep))
            /\ pc[r] # "gather" => \A i \in 1 .. MaxSteps : task[r][i] = "none")
    /\ [][ \A r \in RunIds :
             (pc[r] = "gather" /\ ready_steps'[r] # ready_steps[r])
                 => \A i \in Range(ready_steps[r]) : TaskDone(task[r][i]) ]_vars

\* a batch of two steps, one resolved and one still running, with a third
\* step outside the batch waiting for both
C15_Witness ==
    /\ pc[1] = "gather"
    /\ Len(ready_steps[1]) = 2
    /\ \E i, j \in Range(ready_steps[1]) :
          task[1][i] = "returned" /\ task[1][j] = "calling"
    /\ \E k \in StepIdx(1) :
          /\ k \notin Range(ready_steps[1])
          /\ wf_steps[1][k].status = "waiting"
          /\ Cardinality(wf_steps[1][k].dependencies) = 2

(***************************************************************************)
(* Claims about MetaAgentSystem, checked under SpecMeta.                   *)
(***************************************************************************)
AgentList == agent_chain.agents
Known(order) == SelectSeq(order, LAMBDA a : a \in DOMAIN agents)
SomeTaskFailed == \E a \in DOMAIN agents : agents[a].failed_tasks > 0
IsPrefix(s, t) == Len(s) <= Len(t) /\ SubSeq(t, 1, Len(s)) = s

\* the producer -> consumer pairs of the data flow between listed agents
FlowEdges ==
    {e \in Range(AgentList) \X Range(AgentList) :
        e[1] \in DOMAIN flow_lists /\ e[2] \in Range(flow_lists[e[1]])}

Compose(R, S) ==
    {<<p[1], q[2]>> : <<p, q>> \in {pq \in R \X S : pq[1][2] = pq[2][1]}}

RECURSIVE Closure(_, _)
Closure(R, n) == IF n = 0 THEN R ELSE Closure(R \cup Compose(R, R), n - 1)

Cyclic == \E a \in Range(AgentList) : <<a, a>> \in Closure(FlowEdges, MaxAgents)

\* C5: a run ends with status Completed only if every one of its steps
\* completed successfully, and a run with a step that failed for good ends
\* Failed -- in every mode of MetaAgentSystem, Parallel included.
C5_CompletedOnlyIfEveryStepSucceeded ==
    /\ execution.status = "completed" => ~SomeTaskFailed
    /\ (meta_pc = "done" /\ SomeTaskFailed) => execution.status = "failed"

\* C6: when the data flow is the linear chain x -> y -> z over the three
\* agents, in whatever order the agent list names them, a Sequential or
\* Pipeline run never starts a consumer before its producer has completed.
C6_LinearChainOrder ==
    ( /\ agent_chain.execution_mode \in {"sequential", "pipeline"}
      /\ flow_lists \in LinearFlowLists
      /\ IsDistinct(AgentList)
      /\ Range(AgentList) = AgentNames )
    => \A producer \in DOMAIN flow_lists :
          flow_lists[producer][1] \in Range(started)
              => producer \in Range(execution.completed_agents)

\* C7: after a Parallel run of a chain with no data flow whose invocations
\* all succeeded, the results map has exactly one entry per agent of the
\* chain that ran, whatever other ids the list names, each under its own id
\* and holding the output of that very agent.
C7_ParallelResultsPerStep ==
    ( /\ agent_chain.execution_mode = "parallel"
      /\ flow_lists = << >>
      /\ meta_pc = "done"
      /\ ~SomeTaskFailed )
    => /\ DOMAIN execution.results = Range(Known(AgentList))
       /\ \A a \in DOMAIN execution.results :
             execution.results[a] = AgentResult(a)

\* C8: for every agent list and every acyclic data flow over it, the sort
\* returns a permutation of the list with each producer before all of its
\* consumers, and a Pipeline run starts the agents in exactly that order.
C8_SortOrdersProducersFirst ==
    (agent_chain.execution_mode = "pipeline" /\ ~Cyclic /\ meta_pc # "idle")
    => LET sorted == _topological_sort(AgentList, agent_chain.data_flow)
       IN  /\ Len(sorted) = Len(AgentList)
           /\ \A a \in AgentNames :
                 Cardinality({k \in 1 .. Len(sorted) : sorted[k] = a})
                   = Cardinality({k \in 1 .. Len(AgentList) : AgentList[k] = a})
           /\ \A e \in FlowEdges : \A i, j \in 1 .. Len(sorted) :
                 (sorted[i] = e[1] /\ sorted[j] = e[2]) => i < j
           /\ execution_order = sorted
           /\ IsPrefix(started, Known(sorted))
           /\ execution.status = "completed" => started = Known(sorted)

\* C9: when the data flow between the listed agents has a cycle, the sort
\* gives back the agent list itself, in its input order, and the Pipeline
\* run walks that list: a run that completes has executed every agent of
\* the chain that is registered, in the order of the list.
C9_CyclicFallsBackToInputOrder ==
    (agent_chain.execution_mode = "pipeline" /\ Cyclic)
    => /\ meta_pc # "idle" => execution_order = AgentList
       /\ meta_pc # "idle" => IsPrefix(started, Known(AgentList))
       /\ execution.status = "completed" => started = Known(AgentList)

(***************************************************************************)
(* Claims about runs side by side, checked under SpecRuns.                 *)
(***************************************************************************)
\* what a run is made of
RunState(r) ==
    <<wf_status[r], wf_steps[r], ctx_variables[r], step_results[r],
      error_log[r], end_time[r], completed_steps[r]>>

\* C11: no step of any run modifies the workflow template (its steps keep
\* their status Waiting, their retry budget, their parameters and their
\* empty result), no step of one run modifies another run, and every new
\* run starts with all its steps Waiting, with the template's retry budget
\* and parameters and with no result.
C11_TemplateAndOtherRunsUntouched ==
    [][ /\ workflow_templates' = workflow_templates
        /\ \A i \in 1 .. Len(workflow_templates') :
              /\ workflow_templates'[i].status = "waiting"
              /\ workflow_templates'[i].result = NoneResult
        /\ \A r1, r2 \in RunIds :
              r1 # r2 => (RunState(r1)' = RunState(r1) \/ RunState(r2)' = RunState(r2))
        /\ \A r \in RunIds :
              (pc[r] = "idle" /\ pc'[r] # "idle")
                  => /\ Len(wf_steps'[r]) = Len(workflow_templates)
                     /\ \A i \in 1 .. Len(wf_steps'[r]) :
                           /\ wf_steps'[r][i].status = "waiting"
                           /\ wf_steps'[r][i].result = NoneResult
                           /\ wf_steps'[r][i].retry_count =
                                 workflow_templates[i].retry_count
                           /\ wf_steps'[r][i].parameters =
                                 workflow_templates[i].parameters ]_vars

\* a run that ended Failed after it used up a retry, and a second run of
\* the same template started after that and in the middle of a batch
C11_Witness ==
    /\ pc[1] = "done"
    /\ wf_status[1] = "failed"
    /\ \E i \in StepIdx(1) : failures[1][i] = 2 /\ wf_steps[1][i].retry_count = 0
    /\ pc[2] = "gather"
    /\ \E i \in StepIdx(2) :
          wf_steps[2][i].status = "running" /\ wf_steps[2][i].retry_count = 1

(***************************************************************************)
(* Claims about _process_step_parameters, checked under SpecParams.        *)
(***************************************************************************)
Placeholder(name) == PyStr(<<"{">> \o name \o <<"}">>)

\* what the placeholder of this name stands for in the context
Resolution(name, variables, results) ==
    IF name \in DOMAIN variables THEN variables[name]
    ELSE IF name \in DOMAIN results THEN results[name]
    ELSE Placeholder(name)

\* C12: a parameter value that is exactly the placeholder {name} resolves
\* to variables[name] if name is a run variable, otherwise to
\* step_results[name] if name is the id of a completed step, otherwise to
\* the placeholder itself; the call returns a dict with the keys of the
\* parameters and leaves the step's parameters and the context as they were.
C12_PlaceholderResolution ==
    [][ (~p_called /\ p_called')
          => /\ Len(p_processed') = Len(p_params)
             /\ \A k \in 1 .. Len(p_params) :
                   /\ p_processed'[k].key = p_params[k].key
                   /\ \A name \in NameChoices :
                         p_params[k].value = Placeholder(name)
                           => p_processed'[k].value =
                                 Resolution(name, p_variables, p_step_results)
             /\ p_params' = p_params
             /\ p_variables' = p_variables
             /\ p_step_results' = p_step_results ]_vars

\* the placeholder of a name that is both a run variable and the id of a
\* completed step was resolved to the variable
C12_Witness ==
    /\ p_called
    /\ p_params[1].value = Placeholder(<<"a">>)
    /\ <<"a">> \in DOMAIN p_variables
    /\ <<"a">> \in DOMAIN p_step_results
    /\ p_processed[1].value = p_variables[<<"a">>]
    /\ p_processed[2].value = Placeholder(<<"x">>)

RECURSIVE ResolvedEverywhere(_, _, _)
\* a value with every exact placeholder in it resolved, at every depth
ResolvedEverywhere(value, variables, results) ==
    IF value.kind = "str"
    THEN IF \E name \in NameChoices : value = Placeholder(name)
         THEN Resolution(CHOOSE name \in NameChoices : value = Placeholder(name),
                         variables, results)
         ELSE value
    ELSE IF value.kind = "dict"
    THEN PyDict([k \in 1 .. Len(value.val) |->
                    Item(value.val[k].key,
                         ResolvedEverywhere(value.val[k].value, variables, results))])
    ELSE IF value.kind = "list"
    THEN PyList([k \in 1 .. Len(value.val) |->
                    ResolvedEverywhere(value.val[k], variables, results)])
    ELSE value

\* C13: placeholders are resolved at every nesting depth -- inside a nested
\* mapping, as an element of a sequence, inside a mapping within a sequence
\* -- by the rule of a top-level value, and every other value is returned
\* unchanged.
C13_ResolvedAtEveryDepth ==
    p_called
      => PyDict(p_processed) =
            ResolvedEverywhere(PyDict(p_params), p_variables, p_step_results)

(***************************************************************************)
(* Claims about the queries and the bookkeeping of the runs, checked under *)
(* SpecQueries and SpecStatus.                                             *)
(***************************************************************************)
\* the last call was get_workflow_status of the engine on this id
AskedStatusOf(id) ==
    query_result.call = "get_workflow_status" /\ query_result.id = id

\* execute_workflow has returned and some step of the run did not complete:
\* a step used up its retries, or the scheduler found a deadlock
EndedOnFailure(r) ==
    /\ pc[r] = "done"
    /\ \E i \in StepIdx(r) : wf_steps[r][i].status # "completed"

\* C16: when a step failure, a retry exhaustion or a deadlock ends a run,
\* execute_workflow still returns, the run is Failed with a non-empty
\* error_log, and get_workflow_status on its id reports exactly that.
C16_FailureCapturedInRunState ==
    \A r \in RunIds :
        EndedOnFailure(r)
          => /\ wf_status[r] = "failed"
             /\ error_log[r] # << >>
             /\ AskedStatusOf(r)
                  => /\ query_result.value.found
                     /\ query_result.value.status = "failed"
                     /\ query_result.value.error_log # << >>

\* the status of a run that ended on a deadlock has just been asked for
C16_Witness ==
    /\ EndedOnFailure(1)
    /\ AskedStatusOf(1)
    /\ LastEntry(1).kind = "deadlock"
    /\ Len(error_log[1]) = 1

\* no run of the engine has ever had this id
NeverARun(id) == id \notin RunIds \/ pc[id] = "idle"

\* C17: get_workflow_status on an id that no run has ever had returns the
\* not-found value (None in WorkflowEngine, an error record in
\* MetaAgentSystem) and changes nothing of either system.
C17_UnknownIdNotFound ==
    [][ /\ (query_result'.call = "get_workflow_status"
              /\ NeverARun(query_result'.id))
           => /\ query_result'.value = [found |-> FALSE]
              /\ UNCHANGED <<runvars, mvars>>
        /\ (query_result'.call = "meta.get_workflow_status"
              /\ query_result'.id \notin meta_active_workflows)
           => /\ ~query_result'.value.found
              /\ query_result'.value.error = query_result'.id
              /\ UNCHANGED <<runvars, mvars>> ]_vars

\* the engine was asked for an id of no run while a run was in a batch
C17_Witness ==
    /\ AskedStatusOf(UnknownRun)
    /\ query_result.value = [found |-> FALSE]
    /\ pc[1] = "gather"
    /\ meta_pc \in {"sequential", "parallel"}

\* C18: from its start on, a run is in exactly one of active_workflows and
\* completed_workflows: in active_workflows while it executes, and in
\* completed_workflows, with a terminal status and an end time, once
\* execute_workflow has returned; get_workflow_status finds it throughout.
C18_RunAlwaysRecorded ==
    \A r \in RunIds :
        /\ pc[r] = "idle" => r \notin active_workflows \cup completed_workflows
        /\ pc[r] = "gather"
             => r \in active_workflows /\ r \notin completed_workflows
        /\ pc[r] = "done"
             => /\ r \in completed_workflows /\ r \notin active_workflows
                /\ wf_status[r] \in {"completed", "failed"}
                /\ end_time[r]
        /\ pc[r] # "idle" => WorkflowStatusOf(r).found
        /\ (pc[r] # "idle" /\ AskedStatusOf(r)) => query_result.value.found

\* the status of a finished run, cancelled while it was executing, has just
\* been asked for
C18_Witness ==
    /\ pc[1] = "done"
    /\ AskedStatusOf(1)
    /\ query_result.value.found
    /\ query_result.value.end_time
    /\ \E i \in StepIdx(1) : wf_steps[1][i].error = "Workflow cancelled"

\* C19: cancel_workflow on an id that no run has, or on the id of a run
\* whose execution has finished, returns false and changes nothing of any
\* run.
C19_CancelUnknownOrFinished ==
    [][ \A id \in RunIds \cup {UnknownRun} :
          (cancel_workflow(id) /\ (NeverARun(id) \/ pc[id] = "done"))
              => /\ cancel_result' = "false"
                 /\ UNCHANGED runvars ]_vars

\* a cancellation was refused after the run had finished
C19_Witness ==
    /\ cancel_result = "false"
    /\ pc[1] = "done"
    /\ wf_status[1] = "completed"
    /\ \E i \in StepIdx(1) : wf_steps[1][i].status = "completed"

\* C20: list_workflows returns an entry for every retained run it selects,
\* with the number of completed steps over the number of steps as its
\* progress, and never fails -- a run of a template with no step included.
C20_ListingNeverFails ==
    query_result.call = "list_workflows"
      => /\ query_result.value.raised = "None"
         /\ DOMAIN query_result.value.value = Listed(query_result.filter)
         /\ \A id \in Listed(query_result.filter) :
               query_result.value.value[id].progress =
                   <<CountSteps(wf_steps[id], "completed"), Len(wf_steps[id])>>

(***************************************************************************)
(* Claims about timeouts, checked under SpecTimeout.                       *)
(***************************************************************************)
\* C21: a run that has started reaches the end of execute_workflow, with a
\* terminal status, also when an invocation of one of its steps never
\* returns: the step's timeout ends the attempt as a failure.
C21_RunWithHungInvocationTerminates ==
    (pc[1] = "gather") ~> (pc[1] = "done" /\ wf_status[1] \in {"completed", "failed"})

(***************************************************************************)
(* Claims about the user registration, checked under SpecRegister and      *)
(* SpecRepository.                                                         *)
(***************************************************************************)
\* no two stored users have the same username, and no two the same email
UniqueUsers ==
    \A i, j \in DOMAIN users :
        i # j => /\ users[i].username # users[j].username
                 /\ users[i].email # users[j].email

\* the fields of this call whose value is already registered
RegisteredFields(username, email) ==
    {f \in {"username", "email"} :
        \/ f = "username" /\ username_exists(username)
        \/ f = "email" /\ email_exists(email)}

\* this step is a register_user call
RegisterCall == register_result'.call = "register_user"

\* C22 as it is stated: no two stored users share a username or an email,
\* and every register_user call whose username or email is already
\* registered raises a ValidationError that names such a field.
C22_DuplicateRejectedNamingField ==
    /\ []UniqueUsers
    /\ [][ LET call == register_result'
               registered == RegisteredFields(call.username, call.email)
           IN  (RegisterCall /\ registered # {})
                  => call.raised \in registered ]_vars

\* C22, amended: no two stored users share a username or an email; every
\* register_user call whose username or email is already registered raises
\* a ValidationError, and when the three fields of the call pass their
\* validation it names "username" if the username is registered and
\* "email" otherwise.
C22_DuplicateRejected ==
    /\ []UniqueUsers
    /\ [][ LET call == register_result'
               registered == RegisteredFields(call.username, call.email)
           IN  (RegisterCall /\ registered # {})
                  => /\ call.raised # "None"
                     /\ (/\ _validate_username(call.username) = "None"
                         /\ _validate_email(call.email) = "None"
                         /\ _validate_password(call.password) = "None")
                          => call.raised = IF "username" \in registered
                                           THEN "username" ELSE "email"
       ]_vars

\* a registration with a new username and a registered email has just been
\* rejected, with two users stored
C22_Witness ==
    /\ register_result.call = "register_user"
    /\ register_result.raised = "email"
    /\ register_result.username \notin usernames
    /\ register_result.email \in emails
    /\ Cardinality(DOMAIN users) = 2

\* C23: a register_user call that raises a ValidationError, for an invalid
\* field or for a duplicate, leaves users, usernames and emails as they
\* were.
C23_RejectedRegistrationChangesNothing ==
    [][ (RegisterCall /\ register_result'.raised # "None")
           => UNCHANGED <<users, usernames, emails>> ]_vars

\* a registration under a registered username and a new email has just
\* been rejected, and the email is still not registered
C23_Witness ==
    /\ register_result.call = "register_user"
    /\ register_result.raised = "username"
    /\ register_result.username \in usernames
    /\ _validate_email(register_result.email) = "None"
    /\ register_result.email \notin emails
    /\ find_by_email(register_result.email) = {}
    /\ Cardinality(DOMAIN users) = 1

\* C24: username_exists and find_by_username agree on every username,
\* email_exists and find_by_email on every email, and users, usernames and
\* emails have the same size.
C24_IndexesAgreeWithUsers ==
    /\ \A username \in UsernameChoices :
          username_exists(username) <=> find_by_username(username) # {}
    /\ \A email \in EmailChoices :
          email_exists(email) <=> find_by_email(email) # {}
    /\ Cardinality(DOMAIN users) = Cardinality(usernames)
    /\ Cardinality(DOMAIN users) = Cardinality(emails)

(***************************************************************************)
(* Claims about MCPMonitor, checked under SpecMonitor.                     *)
(***************************************************************************)
\* C25: every tool has total_calls = successful_calls + failed_calls; a
\* record_tool_call raises the total_calls of the tool it names by one,
\* leaves the counters of every other tool as they were, and makes the
\* entry of a tool that is not known yet, starting from zero.
C25_CallCountersAddUp ==
    /\ [](\A t \in DOMAIN tool_metrics :
             tool_metrics[t].total_calls =
                 tool_metrics[t].successful_calls + tool_metrics[t].failed_calls)
    /\ [][ \A tool_name \in ToolChoices, response_time \in ResponseTimes,
              success \in BOOLEAN :
              record_tool_call(tool_name, response_time, success)
                => /\ DOMAIN tool_metrics' = DOMAIN tool_metrics \cup {tool_name}
                   /\ tool_metrics'[tool_name].total_calls =
                         (IF tool_name \in DOMAIN tool_metrics
                          THEN tool_metrics[tool_name].total_calls ELSE 0) + 1
                   /\ \A t \in DOMAIN tool_metrics \ {tool_name} :
                         /\ tool_metrics'[t].total_calls = tool_metrics[t].total_calls
                         /\ tool_metrics'[t].successful_calls =
                                tool_metrics[t].successful_calls
                         /\ tool_metrics'[t].failed_calls = tool_metrics[t].failed_calls
       ]_vars

\* calls of a known tool and of a tool that was not known have been
\* recorded, failed ones among them
C25_Witness ==
    /\ "custom_tool" \in DOMAIN tool_metrics
    /\ tool_metrics["custom_tool"].failed_calls = 1
    /\ tool_metrics["custom_tool"].successful_calls = 1
    /\ tool_metrics["mcp__github__"].failed_calls = 1
    /\ tool_metrics["mcp__supabase__"].total_calls = 0

(***************************************************************************)
(* Claims about what a run leaves behind, checked under Spec.              *)
(***************************************************************************)
\* the steps of run r that cancel_workflow has failed
CancelledByCall(r) ==
    {i \in StepIdx(r) : /\ wf_steps[r][i].status = "failed"
                        /\ wf_steps[r][i].error = "Workflow cancelled"}

\* C26: once cancel_workflow has set a run to Cancelled, the run stays
\* Cancelled, none of its steps is started any more, and the steps the
\* call failed stay Failed, whatever the coroutine of the run does when it
\* goes on.
C26_CancelledRunStaysCancelled ==
    [][ \A r \in RunIds :
          wf_status[r] = "cancelled"
            => /\ wf_status'[r] = "cancelled"
               /\ \A i \in StepIdx(r) :
                     wf_steps'[r][i].status = "running"
                        => wf_steps[r][i].status = "running"
               /\ \A i \in CancelledByCall(r) :
                     wf_steps'[r][i].status = "failed" ]_vars

\* has an invocation of step i of run r returned a result
ReturnedResult(r, i) == invocations[r][i] > failures[r][i]

\* C27: when execute_workflow has returned, no step of the run is Running,
\* and every step with an invocation that returned a result is Completed
\* with its result in step_results -- also when a step of the same batch
\* has failed for good.
C27_NoStepLeftRunning ==
    \A r \in RunIds :
        (pc[r] = "done" /\ wf_status[r] \in {"completed", "failed"})
          => \A i \in StepIdx(r) :
                /\ wf_steps[r][i].status # "running"
                /\ ReturnedResult(r, i)
                     => /\ wf_steps[r][i].status = "completed"
                        /\ wf_steps[r][i].id \in DOMAIN step_results[r]

\* the entries of the error_log of run r that are about the step with this id
StepEntries(r, id) ==
    {k \in 1 .. Len(error_log[r]) :
        error_log[r][k].kind = "step" /\ error_log[r][k].ids = <<id>>}

\* C28: the error_log has an entry for a step only when the retries of the
\* step are used up: at most one entry per step, none for a step that has
\* a retry left or has completed, and none at all in a run that ends
\* Completed.
C28_LoggedOnlyWhenRetriesExhausted ==
    \A r \in RunIds :
        /\ \A i \in StepIdx(r) :
              /\ Cardinality(StepEntries(r, wf_steps[r][i].id)) <= 1
              /\ StepEntries(r, wf_steps[r][i].id) # {}
                   => /\ wf_steps[r][i].status = "failed"
                      /\ wf_steps[r][i].retry_count = 0
        /\ (pc[r] = "done" /\ wf_status[r] = "completed") => error_log[r] = << >>

\* the conditions of step i of run r are not met
ConditionsNotMet(r, i) ==
    ~_check_step_conditions(wf_steps[r][i].conditions, ctx_variables[r], 1)

\* C29: a step whose conditions are not met is never invoked, has no
\* result, is never Completed, and is Skipped when the run ends Completed;
\* the status query does not count it among the completed steps.
C29_UnmetConditionsSkipStep ==
    \A r \in RunIds : \A i \in StepIdx(r) :
        ConditionsNotMet(r, i)
          => /\ invocations[r][i] = 0
             /\ wf_steps[r][i].status # "completed"
             /\ wf_steps[r][i].id \notin DOMAIN step_results[r]
             /\ (pc[r] = "done" /\ wf_status[r] = "completed")
                  => /\ wf_steps[r][i].status = "skipped"
                     /\ WorkflowStatusOf(r).completed_steps < Len(wf_steps[r])

(***************************************************************************)
(* Claims about the order of the Pipeline mode, checked under SpecMeta.    *)
(***************************************************************************)
\* the place of the agent in the sequence
PlaceIn(seq, a) == CHOOSE k \in 1 .. Len(seq) : seq[k] = a

\* the agent is no producer and no consumer of the data flow
Unmentioned(a) == \A e \in FlowEdges : e[1] # a /\ e[2] # a

Producers(a) == {e[1] : e \in {f \in FlowEdges : f[2] = a}}

\* two consumers that have one producer, the same for both: the sort makes
\* them ready in the same turn of its loop
ReadyTogether(a, b) ==
    /\ Cardinality(Producers(a)) = 1
    /\ Producers(a) = Producers(b)

\* C30: for a list of distinct agents and an acyclic data flow, two agents
\* that the map does not mention, and two consumers that become ready
\* together, stand in the Pipeline execution order as they stand in the
\* chain's agent list.
C30_TiesKeepListOrder ==
    (/\ agent_chain.execution_mode = "pipeline"
     /\ ~Cyclic
     /\ IsDistinct(AgentList)
     /\ meta_pc # "idle")
    => \A a, b \in Range(AgentList) :
          (/\ a # b
           /\ (Unmentioned(a) /\ Unmentioned(b)) \/ ReadyTogether(a, b)
           /\ PlaceIn(AgentList, a) < PlaceIn(AgentList, b))
            => /\ a \in Range(execution_order)
               /\ b \in Range(execution_order)
               /\ PlaceIn(execution_order, a) < PlaceIn(execution_order, b)

(***************************************************************************)
(* Claims about termination, checked under SpecReturns.                    *)
(***************************************************************************)
\* C31: when every invocation comes back, a run that has been started
\* reaches the end of execute_workflow after finitely many batches, with
\* the status Completed or Failed and its end time set -- for every
\* dependency graph of the templates, cyclic ones and ones that name a
\* missing step included, and every retry budget.
C31_EveryRunTerminates ==
    [](pc[1] # "idle"
         => <>(/\ pc[1] = "done"
               /\ wf_status[1] \in {"completed", "failed"}
               /\ end_time[1]
               /\ 1 \in completed_workflows))

\* a run has ended on a deadlock after a step was retried
C31_Witness ==
    /\ pc[1] = "done"
    /\ wf_status[1] = "failed"
    /\ LastEntry(1).kind = "deadlock"
    /\ \E i \in StepIdx(1) : failures[1][i] > 0 /\ invocations[1][i] > failures[1][i]

(***************************************************************************)
(* Claims about the Parallel mode and the agents' counters, checked under  *)
(* SpecMeta.                                                               *)
(***************************************************************************)
\* how often the list names the agent
Occurrences(seq, a) == Cardinality({k \in 1 .. Len(seq) : seq[k] = a})

\* C32: in Parallel mode every agent of the chain that is registered is
\* started, in one go and in the order of the list, before any of them has
\* come back, whatever the data flow says; and when the run ends every one
\* of them has come back, the ones after a failed agent too, and the run
\* is Completed.
C32_ParallelLaunchesAllTogether ==
    agent_chain.execution_mode = "parallel"
    => /\ (meta_pc = "parallel"
             /\ \E k \in 1 .. Len(agent_tasks) : agent_tasks[k].state # "scheduled")
          => /\ started = Known(AgentList)
             /\ Len(agent_tasks) = Len(started)
             /\ \A k \in 1 .. Len(agent_tasks) : agent_tasks[k].state # "scheduled"
       /\ meta_pc = "done"
          => /\ started = Known(AgentList)
             /\ execution.status = "completed"
             /\ \A a \in DOMAIN agents :
                   agents[a].completed_tasks + agents[a].failed_tasks
                     = Occurrences(AgentList, a)

\* a Parallel run over a chain with a data flow has ended, the first agent
\* of the list failed and a later one completed
C32_Witness ==
    /\ agent_chain.execution_mode = "parallel"
    /\ meta_pc = "done"
    /\ flow_lists # << >>
    /\ Len(AgentList) >= 2
    /\ IsDistinct(AgentList)
    /\ AgentList[1] \in DOMAIN agents
    /\ agents[AgentList[1]].failed_tasks = 1
    /\ \E k \in 2 .. Len(AgentList) :
          /\ AgentList[k] \in DOMAIN agents
          /\ agents[AgentList[k]].completed_tasks = 1

\* C37: every agent has total_tasks = completed_tasks + failed_tasks, in
\* every mode, after tasks that returned and tasks that raised.
C37_TaskCountersAddUp ==
    \A a \in DOMAIN agents :
        agents[a].total_tasks = agents[a].completed_tasks + agents[a].failed_tasks

(***************************************************************************)
(* Claims about steps with several conditions, checked under               *)
(* SpecConditions.                                                         *)
(***************************************************************************)
\* the condition holds for the variables: a variable_exists condition asks
\* for its variable, the other kinds are granted
ConditionHolds(c, variables) ==
    c.type = "variable_exists" => c.variable \in variables

\* some condition of step i of run r does not hold
SomeConditionFails(r, i) ==
    \E k \in 1 .. Len(wf_steps[r][i].conditions) :
        ~ConditionHolds(wf_steps[r][i].conditions[k], ctx_variables[r])

\* C33: a step with several conditions is invoked only if every one of
\* them holds: a step one of whose conditions fails, wherever in the list
\* that condition stands, is never invoked and has no result.
C33_EveryConditionMustHold ==
    \A r \in RunIds : \A i \in StepIdx(r) :
        SomeConditionFails(r, i)
          => /\ invocations[r][i] = 0
             /\ wf_steps[r][i].id \notin DOMAIN step_results[r]

(***************************************************************************)
(* Claims about MCPMasterAgent.execute_workflow, checked under SpecMaster. *)
(***************************************************************************)
\* the calls that have been made
MasterStarted == {r \in MasterRuns : master_pc[r] # "idle"}

\* the result keys of the steps before place i
EarlierKeys(i) == {ResultKey(j) : j \in 1 .. i - 1}

\* the step at place i names a dependency that is no result key of an
\* earlier step
BadDependency(i) ==
    \E dep \in master_workflow[i].dependencies : dep \notin EarlierKeys(i)

\* C34: the steps are invoked in list order, one at a time; no step that
\* names a dependency which is not the result key of an earlier step is
\* invoked, and no step after it, and the run then ends with status error;
\* steps_completed is the number of entries of results at every moment.
C34_ListOrderAndDependencies ==
    \A r \in MasterStarted :
        LET rec == execution_result[r]
        IN  /\ \A k \in 1 .. Len(mcp_calls[r]) : mcp_calls[r][k] = k
            /\ rec.steps_completed = Cardinality(rec.results)
            /\ rec.results = EarlierKeys(rec.steps_completed + 1)
            /\ master_pc[r] = "call"
                 => /\ Len(mcp_calls[r]) = rec.steps_completed + 1
                    /\ rec.status = "running"
            /\ master_pc[r] = "done"
                 => /\ Len(mcp_calls[r]) \in {rec.steps_completed,
                                              rec.steps_completed + 1}
                    /\ rec.status \in {"completed", "error"}
                    /\ rec.status = "completed"
                         <=> rec.steps_completed = Len(master_workflow)
            /\ \A i \in 1 .. Len(master_workflow) :
                  BadDependency(i)
                    => /\ \A k \in 1 .. Len(mcp_calls[r]) : mcp_calls[r][k] < i
                       /\ master_pc[r] = "done" => rec.status = "error"

\* a run was aborted at its second step, which names a dependency that no
\* earlier step produced, after the first step was invoked and came back
C34_Witness ==
    \E r \in MasterStarted :
        /\ Len(master_workflow) = 2
        /\ BadDependency(2)
        /\ master_pc[r] = "done"
        /\ execution_result[r].status = "error"
        /\ execution_result[r].errors = <<"dependency">>
        /\ execution_result[r].steps_completed = 1
        /\ mcp_calls[r] = <<1>>

\* C35: every call has an execution id of its own and a record of its own
\* in active_workflows: no two calls share an id, and the record kept
\* under the id of a call is the record of that call.
C35_OwnIdAndRecord ==
    \A r \in MasterStarted :
        /\ execution_result[r].execution_id \in DOMAIN master_active_workflows
        /\ master_active_workflows[execution_result[r].execution_id] = r
        /\ \A q \in MasterStarted \ {r} :
              execution_result[q].execution_id # execution_result[r].execution_id

(***************************************************************************)
(* Claims about dynamic_agent_replacement, checked under SpecReplacement.  *)
(***************************************************************************)
\* C36: the agent list of a chain changes only while an execution of the
\* chain is running in which the replaced agent has not completed; the
\* list of a chain that has no execution, or whose executions have all
\* finished, stays as it is.
C36_ReplacesOnlyInRunningChains ==
    [][agent_chain'.agents # agent_chain.agents
         => /\ execution.status = "running"
            /\ \A k \in 1 .. Len(agent_chain.agents) :
                  agent_chain'.agents[k] # agent_chain.agents[k]
                    => \A j \in 1 .. Len(execution.completed_agents) :
                          execution.completed_agents[j] # agent_chain.agents[k]]_vars

(***************************************************************************)
(* Claims about the monitoring loop, checked under SpecLoop.               *)
(***************************************************************************)
\* the calls of start_monitoring whose loop has not ended
RunningLoops == {c \in LoopCalls : monitor_loops[c] = "asleep"}

\* C38: at most one monitoring loop is running at any time, whatever the
\* order of the start_monitoring and stop_monitoring calls, and
\* monitoring_active is true whenever a loop is running.
C38_AtMostOneLoop ==
    /\ Cardinality(RunningLoops) <= 1
    /\ RunningLoops # {} => monitoring_active

====
